---- MODULE Spec2Model ----
(***************************************************************************)
(* SvsKeeperCommitProcessor (src/src/Service/SvsKeeperCommitProcessor.h).  *)
(*                                                                         *)
(* The commit processor owns one worker thread running run3().  Client     *)
(* threads call processRequest, the consensus layer calls commit and       *)
(* onError, and one thread calls shutdown.  Every thread is modelled with  *)
(* its own program counter; a step of the model is one atomic region of    *)
(* the code (a region that touches shared state at one point only).        *)
(*                                                                         *)
(* Environment: a session's client issues xids 1, 2, 3, ... one call at a  *)
(* time (glossary: "xid ... monotonically increasing within a session").   *)
(* The consensus layer calls commit for writes that processRequest has     *)
(* already pushed, in increasing xid order per session (it may skip a      *)
(* write), and for writes of a session owned by another node.  It calls    *)
(* onError for pushed writes, before or after their commit.                *)
(*                                                                         *)
(* LOG_TRACE statements are not modelled (trace logging disabled).         *)
(***************************************************************************)
EXTENDS Integers, Sequences, FiniteSets, TLC

\* ------------------------------------------------------------------ bounds
NumSessions == 2     \* sessions whose clients are connected to this node
\* OrderSpec: clients, consensus and the worker, no shutdown
MaxRequests == 3     \* processRequest calls that pass the shutdown test
MaxCommits  == 2     \* commit calls
MaxErrors   == 1     \* onError calls
MaxForeign  == 1     \* of the commit calls, those of a session owned by another node
\* Spec: every thread, shutdown included
SdRequests  == 2
SdCommits   == 1
SdErrors    == 1
SdForeign   == 1
MaxDropped  == 3     \* calls that find shutdown_called set
\* FairSpec: clients, commits and the worker under fair scheduling
LiveRequests == 3
LiveCommits  == 1
\* ErrorSpec: clients, consensus and the worker, with several onError calls
ErrRequests == 2
ErrCommits  == 1
ErrErrors   == 2
\* LockSpec: the accesses to the errors map, one step per lock operation
LockWrites  == 2     \* pending writes of each session when LockSpec starts

\* SnapSpec: the snapshot serializers and the batch body codec
MaxEntries     == 2  \* entries of a collection, elements of a batch body
MaxBatchSize   == 2  \* save_batch_size
MaxNewSessions == 1  \* sessions created while the session serializer runs

LocalSessions  == 1..NumSessions
ForeignSession == NumSessions + 1

VARIABLES
    requests_queue,          \* ptr<RequestsQueue>: FIFO of requests
    committed_queue,         \* SvsKeeperThreadSafeQueue: FIFO of committed requests
    errors,                  \* (session_id, xid) -> [accepted, code]
    pending_requests,        \* session_id -> vector of requests
    pending_write_requests,  \* session_id -> vector of write requests
    responses_queue,         \* every response pushed, in push order
    shutdown_called,
    store_log,               \* every storage.processRequest call, in call order
    w_pc,                    \* the worker's position in run3
    committed_request_size,  \* run3's local, line 411 (0 outside lines 411-492)
    request_size,            \* run3's local, line 412 (0 outside lines 412-426)
    logged,                  \* what the catch block logged in the iteration that just ended
    client_pc, client_req,   \* per session: position in processRequest, its argument
    next_xid,                \* per session: the xid of the client's next request
    commit_called,           \* requests commit was called with
    error_called,            \* (session_id, xid) onError was called with
    sd_pc,                   \* position in shutdown
    sd_snapshot,             \* requests_queue as it was when shutdown was called
    worker_popped,           \* requests the worker popped from requests_queue
    dropped,                 \* the entry points whose call found shutdown_called set
    submitted,               \* requests processRequest pushed
    commit_log,              \* requests commit pushed, in push order
    budget,                  \* how many calls the environment makes (fixed by Init)
    \* SnapshotCommon.cpp
    snap_input,              \* the arguments of the call under way
    snap_pc,                 \* the caller's position
    snap_file,               \* the bytes written to the file at `path`, in write order
    snap_result,             \* what the call returned (or threw)
    store,                   \* KeeperStore: session_and_timeout, session_and_auth, session_id_counter
    store_mutex,             \* the holders of store.session_mutex and store.auth_mutex
    next_session_id,         \* the local of serializeSessions and serializeSessionsV2
    entry_counter,           \* store.session_id_counter when the session serializer was entered
    \* the locks of the commit processor (lines 576-580)
    errors_mutex,            \* the thread that holds errors_mutex, or "none"
    mutex,                   \* the thread that holds mutex, or "none"
    errors_users,            \* the threads inside a member function of errors
    lock_pc                  \* per thread: its position between the lock operations

snapshot_vars == << snap_input, snap_pc, snap_file, snap_result, store, store_mutex,
                    next_session_id, entry_counter >>

lock_vars == << errors_mutex, mutex, errors_users, lock_pc >>

vars == << requests_queue, committed_queue, errors, pending_requests,
           pending_write_requests, responses_queue, shutdown_called, store_log,
           w_pc, committed_request_size, request_size, logged,
           client_pc, client_req, next_xid, commit_called,
           error_called, sd_pc, sd_snapshot, worker_popped,
           dropped, submitted, commit_log, budget, snapshot_vars, lock_vars >>

processor_vars == << requests_queue, committed_queue, errors, pending_requests,
                     pending_write_requests, responses_queue, shutdown_called, store_log,
                     w_pc, committed_request_size, request_size, logged,
                     client_pc, client_req, next_xid, commit_called,
                     error_called, sd_pc, sd_snapshot, worker_popped,
                     dropped, submitted, commit_log, budget, lock_vars >>

\* ------------------------------------------------------------ data types
Request(s, x, rd) == [session_id |-> s, xid |-> x, is_read |-> rd]
NoRequest == Request(0, 0, TRUE)

\* std::unordered_map: a function whose domain is the set of keys present
EmptyMap == [k \in {} |-> <<>>]
Put(m, k, v) == [x \in (DOMAIN m) \cup {k} |-> IF x = k THEN v ELSE m[x]]
Erase(m, k) == [x \in (DOMAIN m) \ {k} |-> m[x]]

Alive == w_pc # "crashed"

NoInput == [kind |-> "none"]
NoResult == [returned |-> FALSE]
Returned(v) == [returned |-> TRUE, value |-> v]
EmptyStore == [session_and_timeout |-> <<>>, session_and_auth |-> <<>>, session_id_counter |-> 0]
NoHolder == [session_mutex |-> "none", auth_mutex |-> "none"]

\* no snapshot call under way
SnapshotIdle ==
    /\ snap_input = NoInput
    /\ snap_pc = "idle"
    /\ snap_file = <<>>
    /\ snap_result = NoResult
    /\ store = EmptyStore
    /\ store_mutex = NoHolder
    /\ next_session_id = 0
    /\ entry_counter = 0

\* no thread holds a lock or is inside errors
LocksFree ==
    /\ errors_mutex = "none"
    /\ mutex = "none"
    /\ errors_users = {}
    /\ lock_pc = [run3 |-> "lock_mutex", onError |-> "idle"]

\* the state the constructor leaves (lines 19-24, 553-582), the worker started
ProcessorConstructed ==
    /\ LocksFree
    /\ requests_queue = <<>>
    /\ committed_queue = <<>>
    /\ errors = EmptyMap
    /\ pending_requests = EmptyMap
    /\ pending_write_requests = EmptyMap
    /\ responses_queue = <<>>
    /\ shutdown_called = FALSE
    /\ store_log = <<>>
    /\ w_pc = "top"
    /\ committed_request_size = 0
    /\ request_size = 0
    /\ logged = "none"
    /\ client_pc = [s \in LocalSessions |-> "idle"]
    /\ client_req = [s \in LocalSessions |-> NoRequest]
    /\ next_xid = [s \in LocalSessions |-> 1]
    /\ commit_called = {}
    /\ error_called = {}
    /\ sd_pc = "idle"
    /\ sd_snapshot = <<>>
    /\ worker_popped = {}
    /\ dropped = {}
    /\ submitted = {}
    /\ commit_log = <<>>

Constructed == SnapshotIdle /\ ProcessorConstructed

Init ==
    /\ Constructed
    /\ budget = [requests |-> SdRequests, commits |-> SdCommits, errors |-> SdErrors,
                 foreign |-> SdForeign, dropped |-> MaxDropped]

OrderInit ==
    /\ Constructed
    /\ budget = [requests |-> MaxRequests, commits |-> MaxCommits, errors |-> MaxErrors,
                 foreign |-> MaxForeign, dropped |-> 0]

ErrorInit ==
    /\ Constructed
    /\ budget = [requests |-> ErrRequests, commits |-> ErrCommits, errors |-> ErrErrors,
                 foreign |-> 0, dropped |-> 0]

LiveInit ==
    /\ Constructed
    /\ budget = [requests |-> LiveRequests, commits |-> LiveCommits, errors |-> 0,
                 foreign |-> 0, dropped |-> 0]

\* cv.notify_all(): a worker blocked in cv.wait wakes and evaluates the predicate again
NotifyAll(pc) == IF pc = "wait" THEN "top" ELSE pc

\* --------------------------------------------------------------- producers
worker_vars == << pending_requests, pending_write_requests, store_log,
                 committed_request_size, request_size, logged, worker_popped >>
client_vars == << client_pc, client_req, next_xid, submitted >>
commit_vars == << commit_called, commit_log >>
error_vars  == << error_called >>
sd_vars     == << sd_pc, sd_snapshot >>

CallsMade == Cardinality({p \in LocalSessions \X (1..budget.requests) : p[2] < next_xid[p[1]]})

\* variant of ProcessRequestCall: the call goes on to push whatever shutdown_called is
ProcessRequestCall_NoTest(s) ==
    /\ Alive
    /\ client_pc[s] = "idle"
    /\ CallsMade < budget.requests
    /\ \E rd \in BOOLEAN :
        /\ client_pc' = [client_pc EXCEPT ![s] = "push"]
        /\ client_req' = [client_req EXCEPT ![s] = Request(s, next_xid[s], rd)]
        /\ next_xid' = [next_xid EXCEPT ![s] = @ + 1]
    /\ UNCHANGED << requests_queue, committed_queue, errors, responses_queue,
                    shutdown_called, w_pc, submitted, dropped >>
    /\ UNCHANGED << snapshot_vars, lock_vars, budget, worker_vars, commit_vars, error_vars, sd_vars >>

\* processRequest, line 28: the test of shutdown_called
ProcessRequestCall(s) ==
    /\ Alive
    /\ client_pc[s] = "idle"
    /\ CallsMade < budget.requests
    /\ \E rd \in BOOLEAN :
        IF shutdown_called
        THEN /\ Cardinality(dropped) < budget.dropped
             /\ dropped' = dropped \cup {"processRequest"}
             /\ UNCHANGED << client_pc, client_req, next_xid >>
        ELSE /\ client_pc' = [client_pc EXCEPT ![s] = "push"]
             /\ client_req' = [client_req EXCEPT ![s] = Request(s, next_xid[s], rd)]
             /\ next_xid' = [next_xid EXCEPT ![s] = @ + 1]
             /\ UNCHANGED dropped
    /\ UNCHANGED << requests_queue, committed_queue, errors, responses_queue,
                    shutdown_called, w_pc, submitted >>
    /\ UNCHANGED << snapshot_vars, lock_vars, budget, worker_vars, commit_vars, error_vars, sd_vars >>

\* processRequest, lines 29-30: push and notify
ProcessRequestPush(s) ==
    /\ Alive
    /\ client_pc[s] = "push"
    /\ requests_queue' = Append(requests_queue, client_req[s])
    /\ w_pc' = NotifyAll(w_pc)
    /\ submitted' = submitted \cup {client_req[s]}
    /\ client_pc' = [client_pc EXCEPT ![s] = "idle"]
    /\ client_req' = [client_req EXCEPT ![s] = NoRequest]
    /\ UNCHANGED << committed_queue, errors, responses_queue, shutdown_called,
                    next_xid, dropped >>
    /\ UNCHANGED << snapshot_vars, lock_vars, budget, worker_vars, commit_vars, error_vars, sd_vars >>

\* what the consensus layer may call commit with next
ForeignCommits == {c \in commit_called : c.session_id = ForeignSession}
CommitTargets ==
    {w \in submitted :
        /\ ~w.is_read
        /\ \A c \in commit_called : c.session_id = w.session_id => c.xid < w.xid}
    \cup (IF Cardinality(ForeignCommits) < budget.foreign
          THEN {Request(ForeignSession, Cardinality(ForeignCommits) + 1, FALSE)}
          ELSE {})

\* ways an onError call may report a failure: (accepted, code)
ErrorResults == {<<TRUE, "TIMEOUT">>, <<FALSE, "FAILED">>}

\* commit, lines 529-534.  The test of shutdown_called and the push are one step: a
\* push that follows a concurrent write of the flag reaches a worker that has
\* returned or is about to, and no worker step reads committed_queue after that.
Commit ==
    /\ Alive
    /\ Cardinality(commit_called) < budget.commits
    /\ \E c \in CommitTargets :
        IF shutdown_called
        THEN /\ Cardinality(dropped) < budget.dropped
             /\ dropped' = dropped \cup {"commit"}
             /\ UNCHANGED << committed_queue, commit_called, commit_log, w_pc >>
        ELSE /\ committed_queue' = Append(committed_queue, c)
             /\ commit_called' = commit_called \cup {c}
             /\ commit_log' = Append(commit_log, c)
             /\ w_pc' = NotifyAll(w_pc)
             /\ UNCHANGED dropped
    /\ UNCHANGED << requests_queue, errors, responses_queue, shutdown_called >>
    /\ UNCHANGED << snapshot_vars, lock_vars, budget, worker_vars, client_vars, error_vars, sd_vars >>

\* onError, lines 537-544: under errors_mutex, emplace (an existing key is kept) and
\* notify.  The test of shutdown_called is taken with it, as in Commit.
OnError ==
    /\ Alive
    /\ Cardinality(error_called) < budget.errors
    /\ \E w \in submitted, res \in ErrorResults :
        LET key == <<w.session_id, w.xid>> IN
        /\ ~w.is_read
        /\ key \notin error_called
        /\ IF shutdown_called
           THEN /\ Cardinality(dropped) < budget.dropped
                /\ dropped' = dropped \cup {"onError"}
                /\ UNCHANGED << errors, error_called, w_pc >>
           ELSE /\ errors' = IF key \in DOMAIN errors THEN errors
                             ELSE Put(errors, key, [accepted |-> res[1], code |-> res[2]])
                /\ error_called' = error_called \cup {key}
                /\ w_pc' = NotifyAll(w_pc)
                /\ UNCHANGED dropped
    /\ UNCHANGED << requests_queue, committed_queue, responses_queue, shutdown_called >>
    /\ UNCHANGED << snapshot_vars, lock_vars, budget, worker_vars, client_vars, commit_vars, sd_vars >>

\* ---------------------------------------------------------------- shutdown
\* shutdown, lines 504-507 (one thread calls shutdown, once)
ShutdownCall ==
    /\ Alive
    /\ sd_pc = "idle"
    /\ IF shutdown_called
       THEN sd_pc' = "done" /\ UNCHANGED << shutdown_called, sd_snapshot >>
       ELSE /\ shutdown_called' = TRUE
            /\ sd_snapshot' = requests_queue
            /\ sd_pc' = "notify"
    /\ UNCHANGED << requests_queue, committed_queue, errors, responses_queue,
                    w_pc, dropped >>
    /\ UNCHANGED << snapshot_vars, lock_vars, budget, worker_vars, client_vars, commit_vars, error_vars >>

\* shutdown, line 508
ShutdownNotify ==
    /\ Alive
    /\ sd_pc = "notify"
    /\ w_pc' = NotifyAll(w_pc)
    /\ sd_pc' = "join"
    /\ UNCHANGED << requests_queue, committed_queue, errors, responses_queue,
                    shutdown_called, sd_snapshot, dropped >>
    /\ UNCHANGED << snapshot_vars, lock_vars, budget, worker_vars, client_vars, commit_vars, error_vars >>

\* shutdown, lines 510-511: join returns once run3 has returned
ShutdownJoin ==
    /\ sd_pc = "join"
    /\ w_pc = "done"
    /\ sd_pc' = "drain"
    /\ UNCHANGED << requests_queue, committed_queue, errors, responses_queue,
                    shutdown_called, sd_snapshot, w_pc, dropped >>
    /\ UNCHANGED << snapshot_vars, lock_vars, budget, worker_vars, client_vars, commit_vars, error_vars >>

\* variant of ShutdownReturn: one tryPop ("if" for "while"), then return
ShutdownReturn_OnePop ==
    /\ sd_pc = "drain"
    /\ sd_pc' = "done"
    /\ UNCHANGED << requests_queue, committed_queue, errors, responses_queue,
                    shutdown_called, sd_snapshot, w_pc, dropped >>
    /\ UNCHANGED << snapshot_vars, lock_vars, budget, worker_vars, client_vars, commit_vars, error_vars >>

ExpiredResponse(r) ==
    [session_id |-> r.session_id, xid |-> r.xid, zxid |-> 0, error |-> "ZSESSIONEXPIRED"]

\* shutdown, lines 514-521: one turn of the drain loop
ShutdownDrain ==
    /\ sd_pc = "drain"
    /\ requests_queue # <<>>
    /\ requests_queue' = Tail(requests_queue)
    /\ responses_queue' = Append(responses_queue, ExpiredResponse(Head(requests_queue)))
    /\ UNCHANGED << committed_queue, errors, shutdown_called, sd_pc, sd_snapshot,
                    w_pc, dropped >>
    /\ UNCHANGED << snapshot_vars, lock_vars, budget, worker_vars, client_vars, commit_vars, error_vars >>

\* shutdown, line 514: tryPop fails, shutdown returns
ShutdownReturn ==
    /\ sd_pc = "drain"
    /\ requests_queue = <<>>
    /\ sd_pc' = "done"
    /\ UNCHANGED << requests_queue, committed_queue, errors, responses_queue,
                    shutdown_called, sd_snapshot, w_pc, dropped >>
    /\ UNCHANGED << snapshot_vars, lock_vars, budget, worker_vars, client_vars, commit_vars, error_vars >>

\* ------------------------------------------------------------------ worker
other_threads == << client_vars, commit_vars, error_vars, sd_vars, dropped, budget,
                   snapshot_vars, lock_vars >>

\* run3, lines 323-329
need_wait ==
    /\ DOMAIN errors = {}
    /\ DOMAIN pending_requests = {}
    /\ requests_queue = <<>>
    /\ committed_queue = <<>>

\* run3, lines 318 and 332-334: the loop test, then the predicate of cv.wait, which
\* the worker evaluates holding its mutex.  No producer takes that mutex, so the
\* worker that finds the predicate false is not yet blocked: see WorkerBlock.
WorkerWait ==
    /\ w_pc = "top"
    /\ w_pc' = IF shutdown_called THEN "done"
               ELSE IF need_wait THEN "blocking" ELSE "check"
    /\ logged' = "none"
    /\ UNCHANGED << requests_queue, committed_queue, errors, responses_queue,
                    shutdown_called, pending_requests, pending_write_requests,
                    store_log, committed_request_size, request_size, worker_popped,
                    other_threads >>

\* run3, line 334: inside cv.wait the worker releases the mutex and blocks; a
\* notify_all that ran since the predicate was evaluated woke nobody
WorkerBlock ==
    /\ w_pc = "blocking"
    /\ w_pc' = "wait"
    /\ UNCHANGED << requests_queue, committed_queue, errors, responses_queue,
                    shutdown_called, worker_vars, other_threads >>

\* std::condition_variable::wait may return without a notification
SpuriousWakeup ==
    /\ w_pc = "wait"
    /\ w_pc' = "top"
    /\ UNCHANGED << requests_queue, committed_queue, errors, responses_queue,
                    shutdown_called, worker_vars, other_threads >>

\* index of the first request of seq with this xid, 0 when there is none
FirstXid(seq, xid) ==
    IF \E i \in 1..Len(seq) : seq[i].xid = xid
    THEN CHOOSE i \in 1..Len(seq) :
            seq[i].xid = xid /\ \A j \in 1..(i - 1) : seq[j].xid # xid
    ELSE 0

RemoveAt(seq, i) == SubSeq(seq, 1, i - 1) \o SubSeq(seq, i + 1, Len(seq))

\* run3, lines 354-366 and 369-380: erase the first request with this xid
EraseXid(seq, xid) ==
    IF FirstXid(seq, xid) = 0 THEN seq ELSE RemoveAt(seq, FirstXid(seq, xid))

\* variant of ErrorResponse: the two error codes exchanged
ErrorResponse_Swapped(r, code) ==
    [session_id |-> r.session_id, xid |-> r.xid, zxid |-> 0,
     error |-> IF code = "TIMEOUT" THEN "ZCONNECTIONLOSS" ELSE "ZOPERATIONTIMEOUT"]

\* run3, lines 384-391
ErrorResponse(r, code) ==
    [session_id |-> r.session_id, xid |-> r.xid, zxid |-> 0,
     error |-> IF code = "TIMEOUT" THEN "ZOPERATIONTIMEOUT" ELSE "ZCONNECTIONLOSS"]

\* what dereferencing end() or begin() of an empty container may do
UBOutcomes == {"crash", "empty"}

\* run3, lines 337-409: the test of shutdown_called, then the errors under
\* errors_mutex.  errors.begin() is any entry of the unordered_map.  Every path
\* through the loop body throws, so one entry at most is handled and the rest of the
\* iteration is skipped (catch, lines 495-498).
WorkerErrors ==
    /\ w_pc = "check"
    /\ IF shutdown_called
       THEN /\ w_pc' = "done"
            /\ UNCHANGED << errors, responses_queue, pending_requests,
                            pending_write_requests, logged >>
       ELSE IF DOMAIN errors = {}
       THEN /\ w_pc' = "sample_committed"
            /\ UNCHANGED << errors, responses_queue, pending_requests,
                            pending_write_requests, logged >>
       ELSE \E key \in DOMAIN errors, ub \in UBOutcomes :
            LET s == key[1]
                xid == key[2]
                prHas == s \in DOMAIN pending_requests
                pwHas == s \in DOMAIN pending_write_requests
                requests == IF prHas THEN pending_requests[s] ELSE <<>>
                i == FirstXid(requests, xid)
                pr1 == IF prHas THEN Put(pending_requests, s, EraseXid(requests, xid))
                       ELSE pending_requests
                pw1 == IF pwHas
                       THEN Put(pending_write_requests, s,
                                EraseXid(pending_write_requests[s], xid))
                       ELSE pending_write_requests
            IN  IF (~prHas \/ ~pwHas) /\ ub = "crash"
                THEN /\ w_pc' = "crashed"
                     /\ pending_requests' = pr1
                     /\ UNCHANGED << errors, responses_queue, pending_write_requests,
                                     logged >>
                ELSE /\ w_pc' = "top"
                     /\ pending_requests' = pr1
                     /\ pending_write_requests' = pw1
                     /\ IF i > 0
                        THEN /\ responses_queue' =
                                  Append(responses_queue,
                                         ErrorResponse(requests[i], errors[key].code))
                             /\ errors' = Erase(errors, key)
                             /\ logged' = IF ~errors[key].accepted
                                          THEN "Request batch is not accepted."
                                          ELSE "Request batch error"
                        ELSE /\ logged' = "Logic Error"
                             /\ UNCHANGED << errors, responses_queue >>
    /\ UNCHANGED << requests_queue, committed_queue, shutdown_called, store_log,
                    committed_request_size, request_size, worker_popped,
                    other_threads >>

\* run3, line 411
WorkerSampleCommitted ==
    /\ w_pc = "sample_committed"
    /\ committed_request_size' = Len(committed_queue)
    /\ w_pc' = "sample_requests"
    /\ UNCHANGED << requests_queue, committed_queue, errors, responses_queue,
                    shutdown_called, pending_requests, pending_write_requests,
                    store_log, request_size, logged, worker_popped, other_threads >>

\* operator[] of the pending maps: the vector of key s, empty when s is not a key
Get(m, s) == IF s \in DOMAIN m THEN m[s] ELSE <<>>
\* operator[] inserts an empty vector for a key that is absent
Touch(m, s) == IF s \in DOMAIN m THEN m ELSE Put(m, s, <<>>)

\* The worker's loops run on a record st of the state they read and write:
\*   rq, cq: requests_queue, committed_queue    pr, pw: the two pending maps
\*   store, resp: store_log, responses_queue    exc: the exception thrown, or "none"
WorkerState ==
    [rq |-> requests_queue, cq |-> committed_queue, pr |-> pending_requests,
     pw |-> pending_write_requests, store |-> store_log, resp |-> responses_queue,
     exc |-> "none"]

\* server->getKeeperStateMachine()->getStorage().processRequest(responses_queue, ...):
\* the store applies the request and pushes its response.  via names the call site.
StoreProcessRequest(st, r, via) ==
    [st EXCEPT
        !.store = Append(@, [session_id |-> r.session_id, xid |-> r.xid,
                             is_read |-> r.is_read, via |-> via]),
        !.resp = Append(@, [session_id |-> r.session_id, xid |-> r.xid,
                            zxid |-> Len(st.store) + 1, error |-> "ZOK"])]

\* variant of DrainInput: pops until tryPop fails, whatever size was sampled
RECURSIVE DrainInput_UntilEmpty(_, _)
DrainInput_UntilEmpty(st, n) ==
    IF st.rq = <<>> THEN st
    ELSE LET r == Head(st.rq)
             s == r.session_id
         IN  DrainInput_UntilEmpty(
                [st EXCEPT !.rq = Tail(@),
                           !.pr = Put(@, s, Append(Get(@, s), r)),
                           !.pw = IF r.is_read THEN @
                                  ELSE Put(@, s, Append(Get(@, s), r))],
                n)

\* variant of DrainInput: every request is filed in pending_write_requests too (no
\* test of isReadRequest)
RECURSIVE DrainInput_FileAll(_, _)
DrainInput_FileAll(st, n) ==
    IF n = 0 \/ st.rq = <<>> THEN st
    ELSE LET r == Head(st.rq)
             s == r.session_id
         IN  DrainInput_FileAll(
                [st EXCEPT !.rq = Tail(@),
                           !.pr = Put(@, s, Append(Get(@, s), r)),
                           !.pw = Put(@, s, Append(Get(@, s), r))],
                n - 1)

\* run3, lines 415-426: pop n requests and file them in the pending maps
RECURSIVE DrainInput(_, _)
DrainInput(st, n) ==
    IF n = 0 \/ st.rq = <<>> THEN st
    ELSE LET r == Head(st.rq)
             s == r.session_id
         IN  DrainInput(
                [st EXCEPT !.rq = Tail(@),
                           !.pr = Put(@, s, Append(Get(@, s), r)),
                           !.pw = IF r.is_read THEN @
                                  ELSE Put(@, s, Append(Get(@, s), r))],
                n - 1)

\* variant of CanServe: a pending write of any session holds the request back (the
\* rule of the earlier run2 loop)
CanServe_AnySession(w_requests, r) ==
    \A s \in DOMAIN pending_write_requests : pending_write_requests[s] = <<>>

\* run3, line 437: may the request at the head of a session's pending list be served now
CanServe(w_requests, r) ==
    w_requests = <<>> \/ r.xid < Head(w_requests).xid

\* variant of ServeSession: serves the first read of the list wherever it stands
ServeSession_AnyRead(st, s) ==
    LET reads == SelectSeq(st.pr[s], LAMBDA r : r.is_read) IN
    IF reads = <<>> THEN st
    ELSE StoreProcessRequest(
            [st EXCEPT !.pr[s] = SelectSeq(@, LAMBDA r : r # Head(reads))],
            Head(reads), "read")

\* run3, lines 434-451: serve the head of session s while it may be served
RECURSIVE ServeSession(_, _)
ServeSession(st, s) ==
    IF st.pr[s] = <<>> THEN st
    ELSE LET r == Head(st.pr[s])
             st1 == [st EXCEPT !.pw = Touch(@, s)]
         IN  IF CanServe(st1.pw[s], r)
             THEN IF ~r.is_read
                  THEN [st1 EXCEPT !.exc = "Logic Error, request requried read request"]
                  ELSE ServeSession(
                          StoreProcessRequest([st1 EXCEPT !.pr[s] = Tail(@)], r, "read"), s)
             ELSE st1

\* the orders in which an unordered_map with keys S may be iterated
Orders(S) ==
    {f \in [1..Cardinality(S) -> S] : \A i, j \in 1..Cardinality(S) : f[i] = f[j] => i = j}

\* run3, lines 429-457: every session of pending_requests, in iteration order ord
RECURSIVE ServeReads(_, _, _)
ServeReads(st, ord, i) ==
    IF i > Len(ord) \/ st.exc # "none" THEN st
    ELSE LET s == ord[i]
             st1 == ServeSession(st, s)
             st2 == IF st1.exc = "none" /\ st1.pr[s] = <<>>
                    THEN [st1 EXCEPT !.pr = Erase(@, s)]
                    ELSE st1
         IN  ServeReads(st2, ord, i + 1)

\* variant of ApplyCommitted: a committed request of a session without pending writes
\* is taken for a logic error
RECURSIVE ApplyCommitted_NoForeign(_, _, _)
ApplyCommitted_NoForeign(st, n, ub) ==
    IF n = 0 \/ st.cq = <<>> \/ st.exc # "none" THEN st
    ELSE LET c == Head(st.cq)
             s == c.session_id
             st1 == [st EXCEPT !.cq = Tail(@), !.pw = Touch(@, s)]
             st2 == [st1 EXCEPT !.pr = Touch(@, s)]
         IN  IF st1.pw[s] = <<>> \/ Head(st1.pw[s]).xid # c.xid
             THEN [st1 EXCEPT !.exc = "Logic Error, pending head write request xid not same"]
             ELSE IF st2.pr[s] = <<>> \/ Head(st2.pr[s]).xid # c.xid
             THEN [st2 EXCEPT !.exc = "Logic Error, pending head request xid not same"]
             ELSE LET st3 == StoreProcessRequest(st2, c, "commit")
                      st4 == [st3 EXCEPT !.pw[s] = Tail(@), !.pr[s] = Tail(@)]
                      st5 == [st4 EXCEPT
                                !.pw = IF st4.pw[s] = <<>> THEN Erase(@, s) ELSE @,
                                !.pr = IF st4.pr[s] = <<>> THEN Erase(@, s) ELSE @]
                  IN  ApplyCommitted_NoForeign(st5, n - 1, ub)

\* variant of ApplyCommitted: a committed request that does not match the head of the
\* pending writes is pushed back on committed_queue before the throw
RECURSIVE ApplyCommitted_Requeue(_, _, _)
ApplyCommitted_Requeue(st, n, ub) ==
    IF n = 0 \/ st.cq = <<>> \/ st.exc # "none" THEN st
    ELSE LET c == Head(st.cq)
             s == c.session_id
             st1 == [st EXCEPT !.cq = Tail(@), !.pw = Touch(@, s)]
             st2 == [st1 EXCEPT !.pr = Touch(@, s)]
         IN  IF st1.pw[s] = <<>>
             THEN ApplyCommitted_Requeue(StoreProcessRequest(st1, c, "foreign"), n - 1, ub)
             ELSE IF Head(st1.pw[s]).xid # c.xid
             THEN [st1 EXCEPT !.cq = Append(@, c),
                              !.exc = "Logic Error, pending head write request xid not same"]
             ELSE IF st2.pr[s] = <<>> \/ Head(st2.pr[s]).xid # c.xid
             THEN [st2 EXCEPT !.exc = "Logic Error, pending head request xid not same"]
             ELSE LET st3 == StoreProcessRequest(st2, c, "commit")
                      st4 == [st3 EXCEPT !.pw[s] = Tail(@), !.pr[s] = Tail(@)]
                      st5 == [st4 EXCEPT
                                !.pw = IF st4.pw[s] = <<>> THEN Erase(@, s) ELSE @,
                                !.pr = IF st4.pr[s] = <<>> THEN Erase(@, s) ELSE @]
                  IN  ApplyCommitted_Requeue(st5, n - 1, ub)

\* run3, lines 462-492: pop n committed requests; a throw leaves the rest queued and
\* drops the request just popped.  ub: what begin() of an empty vector does (line 477)
RECURSIVE ApplyCommitted(_, _, _)
ApplyCommitted(st, n, ub) ==
    IF n = 0 \/ st.cq = <<>> \/ st.exc # "none" THEN st
    ELSE LET c == Head(st.cq)
             s == c.session_id
             st1 == [st EXCEPT !.cq = Tail(@), !.pw = Touch(@, s)]
             st2 == [st1 EXCEPT !.pr = Touch(@, s)]
         IN  IF st1.pw[s] = <<>>
             THEN ApplyCommitted(StoreProcessRequest(st1, c, "foreign"), n - 1, ub)
             ELSE IF Head(st1.pw[s]).xid # c.xid
             THEN [st1 EXCEPT !.exc = "Logic Error, pending head write request xid not same"]
             ELSE IF st2.pr[s] = <<>>
             THEN [st2 EXCEPT !.exc = IF ub = "crash" THEN "crash"
                        ELSE "Logic Error, pending head request xid not same"]
             ELSE IF Head(st2.pr[s]).xid # c.xid
             THEN [st2 EXCEPT !.exc = "Logic Error, pending head request xid not same"]
             ELSE LET st3 == StoreProcessRequest(st2, c, "commit")
                      st4 == [st3 EXCEPT !.pw[s] = Tail(@), !.pr[s] = Tail(@)]
                      st5 == [st4 EXCEPT
                                !.pw = IF st4.pw[s] = <<>> THEN Erase(@, s) ELSE @,
                                !.pr = IF st4.pr[s] = <<>> THEN Erase(@, s) ELSE @]
                  IN  ApplyCommitted(st5, n - 1, ub)

\* run3, line 412
WorkerSampleRequests ==
    /\ w_pc = "sample_requests"
    /\ request_size' = Len(requests_queue)
    /\ w_pc' = "drain_input"
    /\ UNCHANGED << requests_queue, committed_queue, errors, responses_queue,
                    shutdown_called, pending_requests, pending_write_requests,
                    store_log, committed_request_size, logged, worker_popped,
                    other_threads >>

\* run3, lines 415-426.  One step for the loop: the worker is the only consumer of
\* requests_queue before it returns, so pushes that arrive meanwhile change nothing
\* the loop reads.
WorkerDrainInput ==
    /\ w_pc = "drain_input"
    /\ LET st == DrainInput(WorkerState, request_size) IN
        /\ requests_queue' = st.rq
        /\ pending_requests' = st.pr
        /\ pending_write_requests' = st.pw
        /\ worker_popped' = worker_popped \cup
              {requests_queue[i] : i \in 1..(Len(requests_queue) - Len(st.rq))}
    /\ request_size' = 0
    /\ w_pc' = "serve_reads"
    /\ UNCHANGED << committed_queue, errors, responses_queue, shutdown_called,
                    store_log, committed_request_size, logged, other_threads >>

\* run3, lines 429-457.  One step: the pending maps and the store are the worker's own.
WorkerServeReads ==
    /\ w_pc = "serve_reads"
    /\ \E ord \in Orders(DOMAIN pending_requests) :
        LET st == ServeReads(WorkerState, ord, 1) IN
        /\ pending_requests' = st.pr
        /\ pending_write_requests' = st.pw
        /\ store_log' = st.store
        /\ responses_queue' = st.resp
        /\ logged' = IF st.exc = "none" THEN logged ELSE st.exc
        /\ w_pc' = IF st.exc = "none" THEN "apply_committed" ELSE "top"
        /\ committed_request_size' = IF st.exc = "none" THEN committed_request_size ELSE 0
    /\ UNCHANGED << requests_queue, committed_queue, errors, shutdown_called,
                    request_size, worker_popped, other_threads >>

\* variant of WorkerApplyCommitted: the loop runs over the size committed_queue has
\* now, as if it were sampled after the input queue was drained
WorkerApplyCommitted_SampleLate ==
    /\ w_pc = "apply_committed"
    /\ \E ub \in UBOutcomes :
        LET st == ApplyCommitted(WorkerState, Len(committed_queue), ub) IN
        /\ committed_queue' = st.cq
        /\ pending_requests' = st.pr
        /\ pending_write_requests' = st.pw
        /\ store_log' = st.store
        /\ responses_queue' = st.resp
        /\ logged' = IF st.exc \in {"none", "crash"} THEN logged ELSE st.exc
        /\ w_pc' = IF st.exc = "crash" THEN "crashed" ELSE "top"
    /\ committed_request_size' = 0
    /\ UNCHANGED << requests_queue, errors, shutdown_called, request_size,
                    worker_popped, other_threads >>

\* run3, lines 460-492.  One step: the worker is the only consumer of committed_queue.
WorkerApplyCommitted ==
    /\ w_pc = "apply_committed"
    /\ \E ub \in UBOutcomes :
        LET st == ApplyCommitted(WorkerState, committed_request_size, ub) IN
        /\ committed_queue' = st.cq
        /\ pending_requests' = st.pr
        /\ pending_write_requests' = st.pw
        /\ store_log' = st.store
        /\ responses_queue' = st.resp
        /\ logged' = IF st.exc \in {"none", "crash"} THEN logged ELSE st.exc
        /\ w_pc' = IF st.exc = "crash" THEN "crashed" ELSE "top"
    /\ committed_request_size' = 0
    /\ UNCHANGED << requests_queue, errors, shutdown_called, request_size,
                    worker_popped, other_threads >>

\* ----------------------------------------------------------- specification
Next ==
    \/ \E s \in LocalSessions : ProcessRequestCall(s)
    \/ \E s \in LocalSessions : ProcessRequestPush(s)
    \/ Commit
    \/ OnError
    \/ ShutdownCall
    \/ ShutdownNotify
    \/ ShutdownJoin
    \/ ShutdownDrain
    \/ ShutdownReturn
    \/ WorkerWait
    \/ WorkerBlock
    \/ SpuriousWakeup
    \/ WorkerErrors
    \/ WorkerSampleCommitted
    \/ WorkerSampleRequests
    \/ WorkerDrainInput
    \/ WorkerServeReads
    \/ WorkerApplyCommitted

Spec == Init /\ [][Next]_vars

\* the worker with clients and the consensus layer
OrderNext ==
    \/ \E s \in LocalSessions : ProcessRequestCall(s)
    \/ \E s \in LocalSessions : ProcessRequestPush(s)
    \/ Commit
    \/ OnError
    \/ WorkerWait
    \/ WorkerBlock
    \/ SpuriousWakeup
    \/ WorkerErrors
    \/ WorkerSampleCommitted
    \/ WorkerSampleRequests
    \/ WorkerDrainInput
    \/ WorkerServeReads
    \/ WorkerApplyCommitted

OrderSpec == OrderInit /\ [][OrderNext]_vars

\* the same threads, the consensus layer reporting up to ErrErrors failures
ErrorSpec == ErrorInit /\ [][OrderNext]_vars

\* the worker with clients and commit, scheduled fairly: a worker that can take a step
\* takes one (a spurious wakeup is never owed), and a processRequest call that passed
\* its test of shutdown_called completes.  A commit may never arrive.
WorkerStep ==
    \/ WorkerWait
    \/ WorkerBlock
    \/ WorkerErrors
    \/ WorkerSampleCommitted
    \/ WorkerSampleRequests
    \/ WorkerDrainInput
    \/ WorkerServeReads
    \/ WorkerApplyCommitted

LiveNext ==
    \/ \E s \in LocalSessions : ProcessRequestCall(s)
    \/ \E s \in LocalSessions : ProcessRequestPush(s)
    \/ Commit
    \/ SpuriousWakeup
    \/ WorkerStep

FairSpec ==
    /\ LiveInit
    /\ [][LiveNext]_vars
    /\ WF_vars(WorkerStep)
    /\ \A s \in LocalSessions : WF_vars(ProcessRequestPush(s))

\* ErrorSpec under the scheduling of FairSpec
FairErrorSpec ==
    /\ ErrorInit
    /\ [][OrderNext]_vars
    /\ WF_vars(WorkerStep)
    /\ \A s \in LocalSessions : WF_vars(ProcessRequestPush(s))


\* ============================================================ the locks around errors
\* The steps above take each handler's access to errors as one step.  LockSpec follows
\* the same code one lock operation at a time: a thread is in errors_users from the
\* call of a member function of errors until its return.  Two threads: run3 (the
\* worker) and onError (the consensus callback).

\* the variables no step of LockSpec changes
lock_frame == << requests_queue, committed_queue, shutdown_called, store_log, w_pc,
                 committed_request_size, request_size, worker_popped, client_vars,
                 commit_vars, sd_vars, dropped, budget, snapshot_vars >>

\* the writes of session s that are pending when LockSpec starts
PendingWritesOf(s) == [x \in 1..LockWrites |-> Request(s, x, FALSE)]

\* a state the processor reaches: every session pushed LockWrites writes, the worker
\* moved them to the pending lists (lines 415-426) and is back at the loop test
LockInit ==
    /\ SnapshotIdle
    /\ LocksFree
    /\ requests_queue = <<>>
    /\ committed_queue = <<>>
    /\ errors = EmptyMap
    /\ pending_requests = [s \in LocalSessions |-> PendingWritesOf(s)]
    /\ pending_write_requests = [s \in LocalSessions |-> PendingWritesOf(s)]
    /\ responses_queue = <<>>
    /\ shutdown_called = FALSE
    /\ store_log = <<>>
    /\ w_pc = "top"
    /\ committed_request_size = 0
    /\ request_size = 0
    /\ logged = "none"
    /\ client_pc = [s \in LocalSessions |-> "idle"]
    /\ client_req = [s \in LocalSessions |-> NoRequest]
    /\ next_xid = [s \in LocalSessions |-> LockWrites + 1]
    /\ commit_called = {}
    /\ error_called = {}
    /\ sd_pc = "idle"
    /\ sd_snapshot = <<>>
    /\ worker_popped = {Request(s, x, FALSE) : s \in LocalSessions, x \in 1..LockWrites}
    /\ dropped = {}
    /\ submitted = {Request(s, x, FALSE) : s \in LocalSessions, x \in 1..LockWrites}
    /\ commit_log = <<>>
    /\ budget = [requests |-> LockWrites, commits |-> 0, errors |-> LockWrites,
                 foreign |-> 0, dropped |-> 0]

\* run3, lines 331-335: std::unique_lock lk(mutex), then cv.wait evaluates its
\* predicate, which calls errors.empty() through need_wait (line 325) holding mutex and
\* nothing else.  A read of errors that overlaps onError's emplace is a data race: it
\* may see the map empty or not.  A blocked wait has released mutex; it wakes on a
\* notification or spuriously and takes mutex again.  shutdown_called is false
\* throughout LockSpec.
WorkerWaitLocked ==
    /\ \/ /\ lock_pc.run3 \in {"lock_mutex", "blocked"}
          /\ mutex = "none"
          /\ mutex' = "run3"
          /\ errors_users' = errors_users \cup {"run3"}
          /\ lock_pc' = [lock_pc EXCEPT !.run3 = "in_empty"]
       \/ /\ lock_pc.run3 = "in_empty"
          /\ \E wait \in (IF "onError" \in errors_users THEN BOOLEAN ELSE {need_wait}) :
                lock_pc' = [lock_pc EXCEPT !.run3 = IF wait THEN "blocked"
                                                    ELSE "lock_errors"]
          /\ mutex' = "none"
          /\ errors_users' = errors_users \ {"run3"}
    /\ UNCHANGED << errors, error_called, pending_requests, pending_write_requests,
                    responses_queue, logged, errors_mutex, lock_frame >>

\* run3, lines 339-409: std::lock_guard lock(errors_mutex), then errors.empty(),
\* begin(), erase() inside the guard's scope; the throw of lines 397-405 leaves the
\* scope and releases errors_mutex.  The rest of the iteration (lines 411-492) does not
\* touch errors.  From LockInit every key onError is called with has its write pending,
\* so the throw of line 405 is not taken.
WorkerErrorsLocked ==
    /\ \/ /\ lock_pc.run3 = "lock_errors"
          /\ errors_mutex = "none"
          /\ errors_mutex' = "run3"
          /\ errors_users' = errors_users \cup {"run3"}
          /\ lock_pc' = [lock_pc EXCEPT !.run3 = "in_drain"]
          /\ UNCHANGED << errors, pending_requests, pending_write_requests,
                          responses_queue, logged >>
       \/ /\ lock_pc.run3 = "in_drain"
          /\ errors_mutex' = "none"
          /\ errors_users' = errors_users \ {"run3"}
          /\ lock_pc' = [lock_pc EXCEPT !.run3 = "lock_mutex"]
          /\ IF DOMAIN errors = {}
             THEN UNCHANGED << errors, pending_requests, pending_write_requests,
                               responses_queue, logged >>
             ELSE \E key \in DOMAIN errors :
                  LET s == key[1]
                      xid == key[2]
                      requests == pending_requests[s]
                      i == FirstXid(requests, xid)
                  IN  /\ pending_requests' =
                             Put(pending_requests, s, EraseXid(requests, xid))
                      /\ pending_write_requests' =
                             Put(pending_write_requests, s,
                                 EraseXid(pending_write_requests[s], xid))
                      /\ IF i > 0
                         THEN /\ responses_queue' =
                                   Append(responses_queue,
                                          ErrorResponse(requests[i], errors[key].code))
                              /\ errors' = Erase(errors, key)
                              /\ logged' = IF ~errors[key].accepted
                                           THEN "Request batch is not accepted."
                                           ELSE "Request batch error"
                         ELSE /\ logged' = "Logic Error"
                              /\ UNCHANGED << errors, responses_queue >>
    /\ UNCHANGED << error_called, mutex, lock_frame >>

\* onError, lines 537-544: the test of shutdown_called, std::lock_guard
\* lock(errors_mutex), errors.emplace, cv.notify_all (which a blocked worker takes as
\* its wakeup), and the guard's release at the end of the scope
OnErrorLocked ==
    /\ \/ /\ lock_pc.onError = "idle"
          /\ Cardinality(error_called) < NumSessions * LockWrites
          /\ errors_mutex = "none"
          /\ errors_mutex' = "onError"
          /\ errors_users' = errors_users \cup {"onError"}
          /\ lock_pc' = [lock_pc EXCEPT !.onError = "in_emplace"]
          /\ UNCHANGED << errors, error_called >>
       \/ /\ lock_pc.onError = "in_emplace"
          /\ \E w \in submitted, res \in ErrorResults :
                LET key == <<w.session_id, w.xid>> IN
                /\ key \notin error_called
                /\ errors' = IF key \in DOMAIN errors THEN errors
                             ELSE Put(errors, key, [accepted |-> res[1], code |-> res[2]])
                /\ error_called' = error_called \cup {key}
          /\ errors_users' = errors_users \ {"onError"}
          /\ lock_pc' = [lock_pc EXCEPT !.onError = "notify"]
          /\ UNCHANGED errors_mutex
       \/ /\ lock_pc.onError = "notify"
          /\ errors_mutex' = "none"
          /\ lock_pc' = [lock_pc EXCEPT !.onError = "idle"]
          /\ UNCHANGED << errors, error_called, errors_users >>
    /\ UNCHANGED << pending_requests, pending_write_requests, responses_queue, logged,
                    mutex, lock_frame >>

LockNext ==
    \/ WorkerWaitLocked
    \/ WorkerErrorsLocked
    \/ OnErrorLocked

LockSpec == LockInit /\ [][LockNext]_vars

\* ============================================================ SnapshotCommon.cpp
\* A file is the sequence of the bytes (0..255) written to it, in write order.

\* writeIntBinary of an integer of n bytes: its bytes as they lie in memory, least
\* significant first, a negative value in two's complement
RECURSIVE writeIntBinary(_, _)
writeIntBinary(v, n) ==
    IF n = 0 THEN <<>> ELSE <<v % 256>> \o writeIntBinary(v \div 256, n - 1)

\* readIntBinary of a signed integer: the value of the bytes, least significant first
RECURSIVE readIntBinary(_)
readIntBinary(bytes) ==
    IF Len(bytes) = 1
    THEN (IF bytes[1] >= 128 THEN bytes[1] - 256 ELSE bytes[1])
    ELSE Head(bytes) + 256 * readIntBinary(Tail(bytes))

\* Coordination::write of an integer of n bytes: most significant byte first
RECURSIVE BigEndian(_, _)
BigEndian(v, n) ==
    IF n = 0 THEN <<>> ELSE BigEndian(v \div 256, n - 1) \o <<v % 256>>
\* Coordination::read of an integer
RECURSIVE FromBigEndian(_)
FromBigEndian(bytes) ==
    IF Len(bytes) = 1
    THEN (IF bytes[1] >= 128 THEN bytes[1] - 256 ELSE bytes[1])
    ELSE FromBigEndian(SubSeq(bytes, 1, Len(bytes) - 1)) * 256 + bytes[Len(bytes)]

\* bitwise exclusive or of two numbers of n bits
RECURSIVE Xor(_, _, _)
Xor(a, b, n) ==
    IF n = 0 THEN 0
    ELSE ((a + b) % 2) + 2 * Xor(a \div 2, b \div 2, n - 1)

\* A UInt32 is held as its four bytes, least significant first.
Zero32 == << 0, 0, 0, 0 >>
Xor32(a, b) == << Xor(a[1], b[1], 8), Xor(a[2], b[2], 8), Xor(a[3], b[3], 8), Xor(a[4], b[4], 8) >>
ShiftRight32(a) ==
    << (a[1] \div 2) + (a[2] % 2) * 128, (a[2] \div 2) + (a[3] % 2) * 128,
       (a[3] \div 2) + (a[4] % 2) * 128, a[4] \div 2 >>
ShiftRightByte32(a) == << a[2], a[3], a[4], 0 >>

\* RK::getCRC32: the CRC-32 of IEEE 802.3 (reflected polynomial 0xEDB88320, initial
\* value and final exclusive or 0xFFFFFFFF)
CRCPolynomial == << 32, 131, 184, 237 >>
CRCMask == << 255, 255, 255, 255 >>
RECURSIVE CRCShift(_, _)
CRCShift(c, k) ==
    IF k = 0 THEN c
    ELSE CRCShift(IF c[1] % 2 = 1 THEN Xor32(ShiftRight32(c), CRCPolynomial)
                  ELSE ShiftRight32(c),
                  k - 1)
CRCTable == [b \in 0..255 |-> CRCShift(<< b, 0, 0, 0 >>, 8)]
\* the member of a one-member set; a value computed once and then named
TheOne(S) == CHOOSE r \in S : TRUE
CRCStep(c, byte) == Xor32(CRCTable[Xor(c[1], byte, 8)], ShiftRightByte32(c))
\* the register after bytes[lo..hi], one half after the other
RECURSIVE CRCUpdate(_, _, _, _)
CRCUpdate(c, bytes, lo, hi) ==
    IF lo > hi THEN c
    ELSE IF lo = hi THEN CRCStep(c, bytes[lo])
    ELSE TheOne({CRCUpdate(half, bytes, (lo + hi) \div 2 + 1, hi) :
                    half \in {CRCUpdate(c, bytes, lo, (lo + hi) \div 2)}})
getCRC32(bytes) == Xor32(CRCUpdate(CRCMask, bytes, 1, Len(bytes)), CRCMask)

\* MAGIC_SNAPSHOT_HEAD and MAGIC_SNAPSHOT_TAIL: "SnapHead" and "SnapTail" (lines 57, 67)
MAGIC_SNAPSHOT_HEAD == << 83, 110, 97, 112, 72, 101, 97, 100 >>
MAGIC_SNAPSHOT_TAIL == << 83, 110, 97, 112, 84, 97, 105, 108 >>

\* SnapshotVersion as the byte written at line 76
SnapshotVersion == [V0 |-> 0, V1 |-> 1, V2 |-> 2, V3 |-> 3]

\* openFileAndWriteHeader, lines 72-78: the file after the call
openFileAndWriteHeader(version) ==
    MAGIC_SNAPSHOT_HEAD \o writeIntBinary(version, 1)

\* writeTailAndClose, lines 80-85: the file out after the call
\* variant of writeTailAndClose: the tail magic is left out
writeTailAndClose_NoMagic(out, checksum) == out \o checksum
writeTailAndClose(out, checksum) ==
    out \o MAGIC_SNAPSHOT_TAIL \o checksum

\* updateCheckSum, lines 379-389: the CRC of checksum and data_crc laid side by side
updateCheckSum(checksum, data_crc) ==
    getCRC32(checksum \o data_crc)

\* ------------------------------------------------------------ batch body (V2)
\* SnapshotBatchType, and the type of a batch body nobody set
SNAPSHOT_TYPE_DATA == 0
SNAPSHOT_TYPE_DATA_EPHEMERAL == 1
SNAPSHOT_TYPE_SESSION == 4
SNAPSHOT_TYPE_STRINGMAP == 5
SNAPSHOT_TYPE_UINTMAP == 6
SNAPSHOT_TYPE_ACLMAP == 7

\* ptr<SnapshotBatchBody>: a null pointer, or a body [type, elements]
NullBatch == [null |-> TRUE]
NewBatchBody == [type |-> SNAPSHOT_TYPE_DATA, elements |-> <<>>]

\* SnapshotBatchBody::add, lines 617-620
BatchAdd(batch, element) == [batch EXCEPT !.elements = Append(@, element)]

RECURSIVE SerializeElements(_)
SerializeElements(elements) ==
    IF elements = <<>> THEN <<>>
    ELSE writeIntBinary(Len(Head(elements)), 4) \o Head(elements)
            \o SerializeElements(Tail(elements))

\* SnapshotBatchBody::serialize, lines 632-643
BatchBodySerialize(batch_body) ==
    writeIntBinary(batch_body.type, 4)
        \o writeIntBinary(Len(batch_body.elements), 4)
        \o SerializeElements(batch_body.elements)

\* what SnapshotBatchBody::parse gives when an exception leaves it
ParseException == [exception |-> TRUE]

\* variant of ParseElements: each element is put before those already read
RECURSIVE ParseElements_Front(_, _, _, _)
ParseElements_Front(data, pos, count, elements) ==
    IF count <= 0 THEN [exception |-> FALSE, elements |-> elements]
    ELSE IF pos + 3 > Len(data) THEN [exception |-> TRUE]
    ELSE LET element_size == readIntBinary(SubSeq(data, pos, pos + 3)) IN
         IF element_size < 0 \/ pos + 3 + element_size > Len(data) THEN [exception |-> TRUE]
         ELSE ParseElements_Front(data, pos + 4 + element_size, count - 1,
                                  <<SubSeq(data, pos + 4, pos + 3 + element_size)>> \o elements)

\* variant of ParseElements: when the input ends early, what was read so far is kept
RECURSIVE ParseElements_Lenient(_, _, _, _)
ParseElements_Lenient(data, pos, count, elements) ==
    IF count <= 0 \/ pos + 3 > Len(data) THEN [exception |-> FALSE, elements |-> elements]
    ELSE LET element_size == readIntBinary(SubSeq(data, pos, pos + 3)) IN
         IF element_size < 0 \/ pos + 3 + element_size > Len(data)
         THEN [exception |-> FALSE, elements |-> elements]
         ELSE ParseElements_Lenient(data, pos + 4 + element_size, count - 1,
                                    Append(elements, SubSeq(data, pos + 4, pos + 3 + element_size)))

\* lines 655-663: read count elements of data from position pos on (the first unread
\* byte).  readIntBinary and readStrict throw when the input ends before they have
\* their bytes; resize throws on a negative size.
RECURSIVE ParseElements(_, _, _, _)
ParseElements(data, pos, count, elements) ==
    IF count <= 0 THEN [exception |-> FALSE, elements |-> elements]
    ELSE IF pos + 3 > Len(data) THEN ParseException
    ELSE LET element_size == readIntBinary(SubSeq(data, pos, pos + 3)) IN
         IF element_size < 0 THEN ParseException
         ELSE IF pos + 3 + element_size > Len(data) THEN ParseException
         ELSE ParseElements(data, pos + 4 + element_size, count - 1,
                            Append(elements, SubSeq(data, pos + 4, pos + 3 + element_size)))

\* SnapshotBatchBody::parse, lines 645-665.  reserve throws on a negative count.
BatchBodyParse(data) ==
    IF Len(data) < 8 THEN ParseException
    ELSE LET type == readIntBinary(SubSeq(data, 1, 4))
             element_count == readIntBinary(SubSeq(data, 5, 8))
         IN  IF element_count < 0 THEN ParseException
             ELSE LET r == ParseElements(data, 9, element_count, <<>>) IN
                  IF r.exception THEN ParseException
                  ELSE [exception |-> FALSE, type |-> type, elements |-> r.elements]

\* ---------------------------------------------------------------- file writer
\* SnapshotBatchHeader as writeIntBinary lays it out: data_length and data_crc, each
\* a 64-bit field, least significant byte first
SnapshotBatchHeader(data_length, data_crc) ==
    writeIntBinary(data_length, 8) \o data_crc \o Zero32

\* variant of saveBatchV2: nothing is written for a null batch
saveBatchV2_SkipNull(out, batch) ==
    IF batch = NullBatch THEN [out |-> out, data_crc |-> Zero32]
    ELSE [out |-> out \o SnapshotBatchHeader(Len(BatchBodySerialize(batch)),
                                             getCRC32(BatchBodySerialize(batch)))
                      \o BatchBodySerialize(batch),
          data_crc |-> getCRC32(BatchBodySerialize(batch))]

\* saveBatchV2, lines 359-377: the file after the call and the data_crc returned
saveBatchV2(out, batch) ==
    LET body == IF batch = NullBatch THEN NewBatchBody ELSE batch
        str_buf == BatchBodySerialize(body)
        data_crc == getCRC32(str_buf)
    IN  [out |-> out \o SnapshotBatchHeader(Len(str_buf), data_crc) \o str_buf,
         data_crc |-> data_crc]

\* variant of saveBatchAndUpdateCheckSumV2: the checksum is returned as it came
saveBatchAndUpdateCheckSumV2_NoFold(out, batch, checksum) ==
    [out |-> saveBatchV2(out, batch).out, batch |-> NewBatchBody, checksum |-> checksum]

\* saveBatchAndUpdateCheckSumV2, lines 391-398: the file, the new batch and the new
\* checksum
saveBatchAndUpdateCheckSumV2(out, batch, checksum) ==
    LET saved == saveBatchV2(out, batch) IN
    [out |-> saved.out, batch |-> NewBatchBody,
     checksum |-> updateCheckSum(checksum, saved.data_crc)]

\* variant of SerializeLoopV2: the batch flushed is written and folded but kept, and
\* the records that follow are added to it
RECURSIVE SerializeLoopV2_KeepBatch(_, _, _, _, _)
SerializeLoopV2_KeepBatch(st, elements, index, type, save_batch_size) ==
    IF elements = <<>> THEN st
    ELSE LET flushed == IF index % save_batch_size = 0 /\ index # 0
                        THEN [saveBatchAndUpdateCheckSumV2(st.out, st.batch, st.checksum)
                                 EXCEPT !.batch = st.batch]
                        ELSE st
             started == IF index = 0
                        THEN [flushed EXCEPT !.batch = [type |-> type, elements |-> <<>>]]
                        ELSE flushed
             added == [started EXCEPT !.batch = BatchAdd(@, Head(elements))]
         IN  SerializeLoopV2_KeepBatch(added, Tail(elements), index + 1, type,
                                       save_batch_size)

\* The loop the V2 serializers share (lines 413-439, 521-552, 574-606): st is
\* [out, batch, checksum], elements the encoded records from index on, in iteration
\* order.
RECURSIVE SerializeLoopV2(_, _, _, _, _)
SerializeLoopV2(st, elements, index, type, save_batch_size) ==
    IF elements = <<>> THEN st
    ELSE LET flushed == IF index % save_batch_size = 0 /\ index # 0
                        THEN saveBatchAndUpdateCheckSumV2(st.out, st.batch, st.checksum)
                        ELSE st
             started == IF index % save_batch_size = 0
                        THEN [flushed EXCEPT !.batch = [type |-> type, elements |-> <<>>]]
                        ELSE flushed
             added == [started EXCEPT !.batch = BatchAdd(@, Head(elements))]
         IN  SerializeLoopV2(added, Tail(elements), index + 1, type, save_batch_size)

\* What follows openFileAndWriteHeader in serializeAclsV2 (lines 408-445),
\* serializeSessionsV2 (516-557) and serializeMapV2 (569-611)
SerializeObjectV2(out, elements, type, save_batch_size) ==
    LET st0 == [out |-> out, batch |-> NullBatch, checksum |-> Zero32]
        st1 == SerializeLoopV2(st0, elements, 0, type, save_batch_size)
        st2 == saveBatchAndUpdateCheckSumV2(st1.out, st1.batch, st1.checksum)
    IN  writeTailAndClose(st2.out, st2.checksum)

\* ------------------------------------------------------------- record encoding
\* Coordination::write (ZooKeeper binary convention): integers most significant byte
\* first, a string as a 32-bit length and its bytes, a vector as a 32-bit count and
\* its members.
WriteInt32(v) == BigEndian(v, 4)
WriteInt64(v) == BigEndian(v, 8)
WriteString(s) == WriteInt32(Len(s)) \o s

RECURSIVE Concat(_)
Concat(seqs) == IF seqs = <<>> THEN <<>> ELSE Head(seqs) \o Concat(Tail(seqs))

\* an ACL is [permissions, scheme, id]; an AuthID is [scheme, id]
WriteACL(acl) == WriteInt32(acl.permissions) \o WriteString(acl.scheme) \o WriteString(acl.id)
WriteACLs(acls) == WriteInt32(Len(acls)) \o Concat([i \in 1..Len(acls) |-> WriteACL(acls[i])])
WriteAuthID(auth) == WriteString(auth.scheme) \o WriteString(auth.id)
WriteAuthIDs(ids) == WriteInt32(Len(ids)) \o Concat([i \in 1..Len(ids) |-> WriteAuthID(ids[i])])

\* A collection is the sequence of its << key, value >> pairs in iteration order.
Has(m, k) == \E i \in 1..Len(m) : m[i][1] = k
At(m, k) == m[CHOOSE i \in 1..Len(m) : m[i][1] = k][2]

\* lines 431-432 (164-165): the buffer of one acl_map entry
AclRecord(acl_it) == WriteInt64(acl_it[1]) \o WriteACLs(acl_it[2])
\* variant of SessionRecord: the auth ids are taken from the first entry of the table
SessionRecord_FirstAuth(session_it, session_and_auth) ==
    LET ids == IF session_and_auth # <<>> THEN session_and_auth[1][2] ELSE <<>>
    IN  WriteInt64(session_it[1]) \o WriteInt64(session_it[2]) \o WriteAuthIDs(ids)

\* lines 539-545 (277-283): the buffer of one session_and_timeout entry
SessionRecord(session_it, session_and_auth) ==
    LET ids == IF Has(session_and_auth, session_it[1]) THEN At(session_and_auth, session_it[1])
               ELSE <<>>
    IN  WriteInt64(session_it[1]) \o WriteInt64(session_it[2]) \o WriteAuthIDs(ids)
\* lines 598-599 (340-341): the buffer of one StringMap or IntMap entry
StringMapRecord(it) == WriteString(it[1]) \o WriteString(it[2])
IntMapRecord(it) == WriteString(it[1]) \o WriteInt64(it[2])
\* lines 482-488 (216-222): the buffer of one ephemerals entry
EphemeralRecord(ephemeral_it) ==
    WriteInt64(ephemeral_it[1]) \o WriteInt64(Len(ephemeral_it[2]))
        \o Concat([i \in 1..Len(ephemeral_it[2]) |-> WriteString(ephemeral_it[2][i])])

\* ------------------------------------------------------------- V2 serializers
\* serializeAclsV2, lines 400-446
serializeAclsV2(acl_map, save_batch_size, version) ==
    SerializeObjectV2(openFileAndWriteHeader(version),
                      [i \in 1..Len(acl_map) |-> AclRecord(acl_map[i])],
                      SNAPSHOT_TYPE_ACLMAP, save_batch_size)

\* serializeMapV2<StringMap>, lines 562-612
serializeStringMapV2(snap_map, save_batch_size, version) ==
    SerializeObjectV2(openFileAndWriteHeader(version),
                      [i \in 1..Len(snap_map) |-> StringMapRecord(snap_map[i])],
                      SNAPSHOT_TYPE_STRINGMAP, save_batch_size)

\* serializeMapV2<IntMap>, lines 562-612
serializeIntMapV2(snap_map, save_batch_size, version) ==
    SerializeObjectV2(openFileAndWriteHeader(version),
                      [i \in 1..Len(snap_map) |-> IntMapRecord(snap_map[i])],
                      SNAPSHOT_TYPE_UINTMAP, save_batch_size)

\* serializeSessionsV2 between the sampling of the counter and the return, lines
\* 516-557, on the file that openFileAndWriteHeader left
EmitSessionsV2(out, st, save_batch_size) ==
    SerializeObjectV2(out,
                      [i \in 1..Len(st.session_and_timeout) |->
                          SessionRecord(st.session_and_timeout[i], st.session_and_auth)],
                      SNAPSHOT_TYPE_SESSION, save_batch_size)

\* The loop of serializeEphemeralsV2, lines 465-495: st is [out, batch]
RECURSIVE EphemeralsLoopV2(_, _, _, _)
EphemeralsLoopV2(st, elements, index, save_batch_size) ==
    IF elements = <<>> THEN st
    ELSE LET flushed == IF index % save_batch_size = 0 /\ index # 0
                        THEN [st EXCEPT !.out = saveBatchV2(st.out, st.batch).out]
                        ELSE st
             started == IF index % save_batch_size = 0
                        THEN [flushed EXCEPT !.batch = [type |-> SNAPSHOT_TYPE_DATA_EPHEMERAL,
                                                        elements |-> <<>>]]
                        ELSE flushed
             added == [started EXCEPT !.batch = BatchAdd(@, Head(elements))]
         IN  EphemeralsLoopV2(added, Tail(elements), index + 1, save_batch_size)

\* no file is opened
NoFile == << >>

\* serializeEphemeralsV2, lines 448-501: the file and the value returned
serializeEphemeralsV2(ephemerals, save_batch_size) ==
    IF ephemerals = <<>> THEN [out |-> NoFile, result |-> 0]
    ELSE LET st0 == [out |-> <<>>, batch |-> NullBatch]
             st1 == EphemeralsLoopV2(st0, [i \in 1..Len(ephemerals) |->
                                              EphemeralRecord(ephemerals[i])],
                                     0, save_batch_size)
         IN  [out |-> saveBatchV2(st1.out, st1.batch).out, result |-> 1]

\* --------------------------------------------------------- legacy serializers
\* SnapshotBatchPB: batch_type and the repeated data items.  A new message has the
\* type unset.
NewBatchPB == [batch_type |-> 0, data |-> <<>>]

RECURSIVE Varint(_)
Varint(n) == IF n < 128 THEN <<n>> ELSE <<128 + (n % 128)>> \o Varint(n \div 128)

\* SnapshotItemPB: the data field, left out when empty
SerializeItemPB(data) == IF data = <<>> THEN <<>> ELSE <<10>> \o Varint(Len(data)) \o data

\* SnapshotBatchPB::SerializeToString: the type field, left out when unset, then one
\* length-delimited field for each item
SerializeToString(batch) ==
    (IF batch.batch_type = 0 THEN <<>> ELSE <<8>> \o Varint(batch.batch_type))
        \o Concat([i \in 1..Len(batch.data) |->
                      <<18>> \o Varint(Len(SerializeItemPB(batch.data[i])))
                             \o SerializeItemPB(batch.data[i])])

\* saveBatch, lines 102-121
saveBatch(out, batch) ==
    LET pb == IF batch = NullBatch THEN NewBatchPB ELSE batch
        str_buf == SerializeToString(pb)
        data_crc == getCRC32(str_buf)
    IN  [out |-> out \o SnapshotBatchHeader(Len(str_buf), data_crc) \o str_buf,
         data_crc |-> data_crc]

\* saveBatchAndUpdateCheckSum, lines 123-130
saveBatchAndUpdateCheckSum(out, batch, checksum) ==
    LET saved == saveBatch(out, batch) IN
    [out |-> saved.out, batch |-> NewBatchPB,
     checksum |-> updateCheckSum(checksum, saved.data_crc)]

\* variant of SerializeLoop: a batch is flushed before every record but the first,
\* whatever save_batch_size is
RECURSIVE SerializeLoop_FlushEach(_, _, _, _, _)
SerializeLoop_FlushEach(st, elements, index, type, save_batch_size) ==
    IF elements = <<>> THEN st
    ELSE LET flushed == IF index # 0
                        THEN saveBatchAndUpdateCheckSum(st.out, st.batch, st.checksum)
                        ELSE st
             started == [flushed EXCEPT !.batch = [batch_type |-> type, data |-> <<>>]]
             added == [started EXCEPT !.batch.data = Append(@, Head(elements))]
         IN  SerializeLoop_FlushEach(added, Tail(elements), index + 1, type,
                                     save_batch_size)

\* The loop the legacy serializers share (lines 145-172, 258-290, 315-348)
RECURSIVE SerializeLoop(_, _, _, _, _)
SerializeLoop(st, elements, index, type, save_batch_size) ==
    IF elements = <<>> THEN st
    ELSE LET flushed == IF index % save_batch_size = 0 /\ index # 0
                        THEN saveBatchAndUpdateCheckSum(st.out, st.batch, st.checksum)
                        ELSE st
             started == IF index % save_batch_size = 0
                        THEN [flushed EXCEPT !.batch = [batch_type |-> type, data |-> <<>>]]
                        ELSE flushed
             added == [started EXCEPT !.batch.data = Append(@, Head(elements))]
         IN  SerializeLoop(added, Tail(elements), index + 1, type, save_batch_size)

\* What follows openFileAndWriteHeader in serializeAcls (lines 140-178),
\* serializeSessions (253-295) and serializeMap (310-353)
SerializeObject(out, elements, type, save_batch_size) ==
    LET st0 == [out |-> out, batch |-> NullBatch, checksum |-> Zero32]
        st1 == SerializeLoop(st0, elements, 0, type, save_batch_size)
        st2 == saveBatchAndUpdateCheckSum(st1.out, st1.batch, st1.checksum)
    IN  writeTailAndClose(st2.out, st2.checksum)

\* serializeAcls, lines 132-179
serializeAcls(acl_map, save_batch_size, version) ==
    SerializeObject(openFileAndWriteHeader(version),
                    [i \in 1..Len(acl_map) |-> AclRecord(acl_map[i])],
                    SNAPSHOT_TYPE_ACLMAP, save_batch_size)

\* serializeMap<StringMap>, lines 303-354
serializeStringMap(snap_map, save_batch_size, version) ==
    SerializeObject(openFileAndWriteHeader(version),
                    [i \in 1..Len(snap_map) |-> StringMapRecord(snap_map[i])],
                    SNAPSHOT_TYPE_STRINGMAP, save_batch_size)

\* serializeMap<IntMap>, lines 303-354
serializeIntMap(snap_map, save_batch_size, version) ==
    SerializeObject(openFileAndWriteHeader(version),
                    [i \in 1..Len(snap_map) |-> IntMapRecord(snap_map[i])],
                    SNAPSHOT_TYPE_UINTMAP, save_batch_size)

\* serializeSessions between the sampling of the counter and the return, lines
\* 253-295, on the file that openFileAndWriteHeader left
EmitSessions(out, st, save_batch_size) ==
    SerializeObject(out,
                    [i \in 1..Len(st.session_and_timeout) |->
                        SessionRecord(st.session_and_timeout[i], st.session_and_auth)],
                    SNAPSHOT_TYPE_SESSION, save_batch_size)

\* The loop of serializeEphemerals, lines 198-229: st is [out, batch]
RECURSIVE EphemeralsLoop(_, _, _, _)
EphemeralsLoop(st, elements, index, save_batch_size) ==
    IF elements = <<>> THEN st
    ELSE LET flushed == IF index % save_batch_size = 0 /\ index # 0
                        THEN [st EXCEPT !.out = saveBatch(st.out, st.batch).out]
                        ELSE st
             started == IF index % save_batch_size = 0
                        THEN [flushed EXCEPT !.batch = [batch_type |-> SNAPSHOT_TYPE_DATA_EPHEMERAL,
                                                        data |-> <<>>]]
                        ELSE flushed
             added == [started EXCEPT !.batch.data = Append(@, Head(elements))]
         IN  EphemeralsLoop(added, Tail(elements), index + 1, save_batch_size)

\* serializeEphemerals, lines 181-235: the file and the value returned
serializeEphemerals(ephemerals, save_batch_size) ==
    IF ephemerals = <<>> THEN [out |-> NoFile, result |-> 0]
    ELSE LET st0 == [out |-> <<>>, batch |-> NullBatch]
             st1 == EphemeralsLoop(st0, [i \in 1..Len(ephemerals) |->
                                            EphemeralRecord(ephemerals[i])],
                                   0, save_batch_size)
         IN  [out |-> saveBatch(st1.out, st1.batch).out, result |-> 1]

\* ------------------------------------------------------- the callers (SnapSpec)
Versions == {SnapshotVersion.V0, SnapshotVersion.V1, SnapshotVersion.V2, SnapshotVersion.V3}
BatchSizes == 1..MaxBatchSize

\* the sequences of at most MaxEntries pairs of a key of K and a value of V, no key
\* twice: a map in each of its iteration orders
Collections(K, V) ==
    UNION {{m \in [1..n -> K \X V] : \A i, j \in 1..n : m[i][1] = m[j][1] => i = j}
           : n \in 0..MaxEntries}

World  == [permissions |-> 31, scheme |-> <<119>>, id |-> <<>>]
Digest == [permissions |-> 1, scheme |-> <<100>>, id |-> <<117, 58, 104>>]
AclMaps == Collections(1..MaxEntries, {<<>>, <<World>>, <<Digest, World>>})
MapKeys == {[i \in 1..n |-> 107] : n \in 0..(MaxEntries - 1)}
StringMaps == Collections(MapKeys, {<<>>, <<118>>})
IntMaps == Collections(MapKeys, {0, 258})
EphemeralsIndexes == Collections(1..MaxEntries, {<< <<47>> >>, << <<47, 97>>, <<47>> >>})

\* KeeperStore: every session id is below session_id_counter, and an auth list belongs
\* to a session of the table and holds at least one id
FirstNewSession == MaxEntries + 1
AuthOfUser == [scheme |-> <<100>>, id |-> <<117>>]
Stores ==
    {[session_and_timeout |-> s, session_and_auth |-> a, session_id_counter |-> FirstNewSession]
        : s \in Collections(1..MaxEntries, {30000}),
          a \in Collections(1..MaxEntries, {<<AuthOfUser>>})}
ReachableStores == {st \in Stores : \A i \in 1..Len(st.session_and_auth) :
                                        Has(st.session_and_timeout, st.session_and_auth[i][1])}

BodyElements == {<<>>, <<1>>, <<2, 255>>}
BodyTypes == {-1, SNAPSHOT_TYPE_DATA, SNAPSHOT_TYPE_ACLMAP}
BatchBodies ==
    {[type |-> ty, elements |-> e] :
        ty \in BodyTypes, e \in UNION {[1..n -> BodyElements] : n \in 0..MaxEntries}}

CollectionInputs ==
    {[kind |-> k, family |-> f, version |-> v, save_batch_size |-> b, collection |-> c] :
        k \in {"acl"}, f \in {"legacy", "V2"}, v \in Versions, b \in BatchSizes, c \in AclMaps}
    \cup
    {[kind |-> k, family |-> f, version |-> v, save_batch_size |-> b, collection |-> c] :
        k \in {"strmap"}, f \in {"legacy", "V2"}, v \in Versions, b \in BatchSizes,
        c \in StringMaps}
    \cup
    {[kind |-> k, family |-> f, version |-> v, save_batch_size |-> b, collection |-> c] :
        k \in {"intmap"}, f \in {"legacy", "V2"}, v \in Versions, b \in BatchSizes,
        c \in IntMaps}
    \cup
    {[kind |-> k, family |-> f, save_batch_size |-> b, collection |-> c] :
        k \in {"ephemerals"}, f \in {"legacy", "V2"}, b \in BatchSizes,
        c \in EphemeralsIndexes}
SessionInputs ==
    {[kind |-> k, family |-> f, version |-> v, save_batch_size |-> b] :
        k \in {"session"}, f \in {"legacy", "V2"}, v \in Versions, b \in BatchSizes}
BodyInputs == {[kind |-> "body", body |-> b, malformed |-> "no"] : b \in BatchBodies}

SnapInit ==
    /\ ProcessorConstructed
    /\ budget = [requests |-> 0, commits |-> 0, errors |-> 0, foreign |-> 0, dropped |-> 0]
    /\ snap_input \in CollectionInputs \cup SessionInputs \cup BodyInputs
    /\ snap_pc = "idle"
    /\ snap_file = <<>>
    /\ snap_result = NoResult
    /\ store \in (IF snap_input.kind = "session" THEN ReachableStores ELSE {EmptyStore})
    /\ store_mutex = NoHolder
    /\ next_session_id = 0
    /\ entry_counter = 0

session_vars == << store, store_mutex, next_session_id, entry_counter >>

\* a call of one of the serializers that hold no store mutex, from entry to return
Call(kind, family, file) ==
    /\ snap_pc = "idle"
    /\ snap_input.kind = kind
    /\ snap_input.family = family
    /\ snap_file' = file
    /\ snap_pc' = "done"
    /\ snap_result' = Returned(0)
    /\ UNCHANGED << snap_input, session_vars, processor_vars >>

SerializeAclsCall ==
    Call("acl", "legacy",
         serializeAcls(snap_input.collection, snap_input.save_batch_size, snap_input.version))
SerializeAclsV2Call ==
    Call("acl", "V2",
         serializeAclsV2(snap_input.collection, snap_input.save_batch_size, snap_input.version))
SerializeStringMapCall ==
    Call("strmap", "legacy",
         serializeStringMap(snap_input.collection, snap_input.save_batch_size, snap_input.version))
SerializeStringMapV2Call ==
    Call("strmap", "V2",
         serializeStringMapV2(snap_input.collection, snap_input.save_batch_size, snap_input.version))
SerializeIntMapCall ==
    Call("intmap", "legacy",
         serializeIntMap(snap_input.collection, snap_input.save_batch_size, snap_input.version))
SerializeIntMapV2Call ==
    Call("intmap", "V2",
         serializeIntMapV2(snap_input.collection, snap_input.save_batch_size, snap_input.version))

\* serializeEphemerals and serializeEphemeralsV2: the ephemerals mutex is held from
\* before the first read to the return
EphemeralsCall(family, written) ==
    /\ snap_pc = "idle"
    /\ snap_input.kind = "ephemerals"
    /\ snap_input.family = family
    /\ snap_file' = written.out
    /\ snap_pc' = "done"
    /\ snap_result' = Returned(written.result)
    /\ UNCHANGED << snap_input, session_vars, processor_vars >>

SerializeEphemeralsCall ==
    EphemeralsCall("legacy", serializeEphemerals(snap_input.collection, snap_input.save_batch_size))
SerializeEphemeralsV2Call ==
    EphemeralsCall("V2", serializeEphemeralsV2(snap_input.collection, snap_input.save_batch_size))

\* serializeSessions and serializeSessionsV2, step by step
\* lines 244 and 507: the file is opened and the header written; no mutex is held
SessionsOpen ==
    /\ snap_pc = "idle"
    /\ snap_input.kind = "session"
    /\ snap_file' = openFileAndWriteHeader(snap_input.version)
    /\ entry_counter' = store.session_id_counter
    /\ snap_pc' = "opened"
    /\ UNCHANGED << snap_input, snap_result, store, store_mutex, next_session_id,
                    processor_vars >>

\* variant of SessionsLockSession: the serializer goes on without session_mutex
SessionsLockSession_NoLock ==
    /\ snap_pc = "opened"
    /\ snap_pc' = "session_locked"
    /\ UNCHANGED << snap_input, snap_file, snap_result, store, store_mutex, next_session_id,
                    entry_counter, processor_vars >>

\* lines 249 and 512: std::lock_guard lock(store.session_mutex)
SessionsLockSession ==
    /\ snap_pc = "opened"
    /\ store_mutex.session_mutex = "none"
    /\ store_mutex' = [store_mutex EXCEPT !.session_mutex = "serializer"]
    /\ snap_pc' = "session_locked"
    /\ UNCHANGED << snap_input, snap_file, snap_result, store, next_session_id,
                    entry_counter, processor_vars >>

\* lines 250 and 513: std::lock_guard acl_lock(store.auth_mutex)
SessionsLockAuth ==
    /\ snap_pc = "session_locked"
    /\ store_mutex.auth_mutex = "none"
    /\ store_mutex' = [store_mutex EXCEPT !.auth_mutex = "serializer"]
    /\ snap_pc' = "locked"
    /\ UNCHANGED << snap_input, snap_file, snap_result, store, next_session_id,
                    entry_counter, processor_vars >>

\* lines 252 and 515: next_session_id = store.session_id_counter
SessionsSample ==
    /\ snap_pc = "locked"
    /\ next_session_id' = store.session_id_counter
    /\ snap_pc' = "sampled"
    /\ UNCHANGED << snap_input, snap_file, snap_result, store, store_mutex,
                    entry_counter, processor_vars >>

\* lines 253-295 and 516-557: the records, the last batch and the tail
SessionsEmit ==
    /\ snap_pc = "sampled"
    /\ snap_file' = IF snap_input.family = "V2"
                    THEN EmitSessionsV2(snap_file, store, snap_input.save_batch_size)
                    ELSE EmitSessions(snap_file, store, snap_input.save_batch_size)
    /\ snap_pc' = "emitted"
    /\ UNCHANGED << snap_input, snap_result, store, store_mutex, next_session_id,
                    entry_counter, processor_vars >>

\* lines 297 and 559: return next_session_id; the lock guards release both mutexes
SessionsReturn ==
    /\ snap_pc = "emitted"
    /\ snap_result' = Returned(next_session_id)
    /\ store_mutex' = NoHolder
    /\ snap_pc' = "done"
    /\ UNCHANGED << snap_input, snap_file, store, next_session_id, entry_counter,
                    processor_vars >>

\* Another thread of the store opens a session: under session_mutex it takes
\* session_id_counter as the id and increments the counter.
StoreNewSession ==
    /\ snap_input.kind = "session"
    /\ store_mutex.session_mutex = "none"
    /\ store.session_id_counter < FirstNewSession + MaxNewSessions
    /\ store' = [store EXCEPT !.session_id_counter = @ + 1,
                              !.session_and_timeout =
                                  Append(@, << store.session_id_counter, 30000 >>)]
    /\ UNCHANGED << snap_input, snap_pc, snap_file, snap_result, store_mutex,
                    next_session_id, entry_counter, processor_vars >>

\* Another thread of the store adds an auth id to a session that has none: under
\* auth_mutex.
StoreAddAuth ==
    /\ snap_input.kind = "session"
    /\ store_mutex.auth_mutex = "none"
    /\ \E i \in 1..Len(store.session_and_timeout) :
          /\ ~Has(store.session_and_auth, store.session_and_timeout[i][1])
          /\ store' = [store EXCEPT !.session_and_auth =
                            Append(@, << store.session_and_timeout[i][1], <<AuthOfUser>> >>)]
    /\ UNCHANGED << snap_input, snap_pc, snap_file, snap_result, store_mutex,
                    next_session_id, entry_counter, processor_vars >>

\* SnapshotBatchBody::serialize of the body given
SerializeBody ==
    /\ snap_pc = "idle"
    /\ snap_input.kind = "body"
    /\ snap_file' = BatchBodySerialize(snap_input.body)
    /\ snap_pc' = "serialized"
    /\ UNCHANGED << snap_input, snap_result, session_vars, processor_vars >>

\* the bytes reach the reader cut short
Truncate ==
    /\ snap_pc = "serialized"
    /\ \E n \in 0..(Len(snap_file) - 1) : snap_file' = SubSeq(snap_file, 1, n)
    /\ snap_input' = [snap_input EXCEPT !.malformed = "truncated"]
    /\ snap_pc' = "damaged"
    /\ UNCHANGED << snap_result, session_vars, processor_vars >>

Overwrite(bytes, pos, field) ==
    [i \in 1..Len(bytes) |-> IF i \in pos..(pos + 3) THEN field[i - pos + 1] ELSE bytes[i]]

\* the positions of the element length fields of the serialization of a body
RECURSIVE LengthPositions(_, _)
LengthPositions(elements, pos) ==
    IF elements = <<>> THEN {}
    ELSE {pos} \cup LengthPositions(Tail(elements), pos + 4 + Len(Head(elements)))

\* the bytes reach the reader with a count that declares more elements than follow
DamageCount ==
    /\ snap_pc = "serialized"
    /\ \E more \in {1, 2, 65536} :
          snap_file' = Overwrite(snap_file, 5,
                                 writeIntBinary(Len(snap_input.body.elements) + more, 4))
    /\ snap_input' = [snap_input EXCEPT !.malformed = "count"]
    /\ snap_pc' = "damaged"
    /\ UNCHANGED << snap_result, session_vars, processor_vars >>

\* the bytes reach the reader with an element length that is negative or declares
\* more bytes than follow
DamageLength ==
    /\ snap_pc = "serialized"
    /\ \E pos \in LengthPositions(snap_input.body.elements, 9) :
          \E size \in {-1, -65536, Len(snap_file) - (pos + 3) + 1, Len(snap_file), 65536} :
              snap_file' = Overwrite(snap_file, pos, writeIntBinary(size, 4))
    /\ snap_input' = [snap_input EXCEPT !.malformed = "length"]
    /\ snap_pc' = "damaged"
    /\ UNCHANGED << snap_result, session_vars, processor_vars >>

\* SnapshotBatchBody::parse of the bytes
ParseBody ==
    /\ snap_pc \in {"serialized", "damaged"}
    /\ snap_result' = Returned(BatchBodyParse(snap_file))
    /\ snap_pc' = "parsed"
    /\ UNCHANGED << snap_input, snap_file, session_vars, processor_vars >>

SnapNext ==
    \/ SerializeAclsCall
    \/ SerializeAclsV2Call
    \/ SerializeStringMapCall
    \/ SerializeStringMapV2Call
    \/ SerializeIntMapCall
    \/ SerializeIntMapV2Call
    \/ SerializeEphemeralsCall
    \/ SerializeEphemeralsV2Call
    \/ SessionsOpen
    \/ SessionsLockSession
    \/ SessionsLockAuth
    \/ SessionsSample
    \/ SessionsEmit
    \/ SessionsReturn
    \/ StoreNewSession
    \/ StoreAddAuth
    \/ SerializeBody
    \/ Truncate
    \/ DamageCount
    \/ DamageLength
    \/ ParseBody

SnapSpec == SnapInit /\ [][SnapNext]_vars

\* ------------------------------------------------------------------ the reader
\* What a reader finds in a file: the header magic and the version byte, then batches
\* of data_length | data_crc | body up to the tail magic, the checksum, and whatever
\* follows the checksum.
Unreadable == [ok |-> FALSE]

RECURSIVE ReadBatches(_, _, _)
ReadBatches(file, pos, batches) ==
    IF pos + 7 > Len(file) THEN Unreadable
    ELSE IF SubSeq(file, pos, pos + 7) = MAGIC_SNAPSHOT_TAIL
    THEN IF pos + 11 > Len(file) THEN Unreadable
         ELSE [ok |-> TRUE, version |-> file[9], batches |-> batches,
               checksum |-> SubSeq(file, pos + 8, pos + 11),
               rest |-> SubSeq(file, pos + 12, Len(file))]
    ELSE IF pos + 15 > Len(file) THEN Unreadable
    ELSE LET data_length == readIntBinary(SubSeq(file, pos, pos + 7)) IN
         IF data_length < 0 \/ pos + 15 + data_length > Len(file) THEN Unreadable
         ELSE ReadBatches(file, pos + 16 + data_length,
                          Append(batches,
                                 [data_length |-> data_length,
                                  data_crc |-> SubSeq(file, pos + 8, pos + 15),
                                  body |-> SubSeq(file, pos + 16, pos + 15 + data_length)]))

ReadFile(file) ==
    IF Len(file) < 9 \/ SubSeq(file, 1, 8) # MAGIC_SNAPSHOT_HEAD THEN Unreadable
    ELSE ReadBatches(file, 10, <<>>)

\* the fold of updateCheckSum over the data_crc of the first n batches, from 0
RECURSIVE FoldCheckSum(_, _)
FoldCheckSum(batches, n) ==
    IF n = 0 THEN Zero32
    ELSE updateCheckSum(FoldCheckSum(batches, n - 1), SubSeq(batches[n].data_crc, 1, 4))

\* ----------------------------------------------------------------- restore
\* Coordination::read: the value at pos and the position after it
ReadString(bytes, pos) ==
    [value |-> SubSeq(bytes, pos + 4, pos + 3 + FromBigEndian(SubSeq(bytes, pos, pos + 3))),
     next |-> pos + 4 + FromBigEndian(SubSeq(bytes, pos, pos + 3))]

RECURSIVE ReadACLs(_, _, _)
ReadACLs(bytes, pos, count) ==
    IF count = 0 THEN <<>>
    ELSE <<[permissions |-> FromBigEndian(SubSeq(bytes, pos, pos + 3)),
            scheme |-> ReadString(bytes, pos + 4).value,
            id |-> ReadString(bytes, ReadString(bytes, pos + 4).next).value]>>
         \o ReadACLs(bytes, ReadString(bytes, ReadString(bytes, pos + 4).next).next, count - 1)

RECURSIVE ReadAuthIDs(_, _, _)
ReadAuthIDs(bytes, pos, count) ==
    IF count = 0 THEN <<>>
    ELSE <<[scheme |-> ReadString(bytes, pos).value,
            id |-> ReadString(bytes, ReadString(bytes, pos).next).value]>>
         \o ReadAuthIDs(bytes, ReadString(bytes, ReadString(bytes, pos).next).next, count - 1)

\* The rebuilders: one record installed into the collections restored so far, which
\* are maps from key to value.
NothingRestored == [acls |-> EmptyMap, sessions |-> EmptyMap, auth |-> EmptyMap,
                    strings |-> EmptyMap, ints |-> EmptyMap]

InstallRecord(restored, type, bytes) ==
    IF type = SNAPSHOT_TYPE_ACLMAP
    THEN [restored EXCEPT !.acls =
            Put(@, FromBigEndian(SubSeq(bytes, 1, 8)),
                ReadACLs(bytes, 13, FromBigEndian(SubSeq(bytes, 9, 12))))]
    ELSE IF type = SNAPSHOT_TYPE_SESSION
    THEN [restored EXCEPT
            !.sessions = Put(@, FromBigEndian(SubSeq(bytes, 1, 8)),
                             FromBigEndian(SubSeq(bytes, 9, 16))),
            !.auth = IF FromBigEndian(SubSeq(bytes, 17, 20)) = 0 THEN @
                     ELSE Put(@, FromBigEndian(SubSeq(bytes, 1, 8)),
                              ReadAuthIDs(bytes, 21, FromBigEndian(SubSeq(bytes, 17, 20))))]
    ELSE IF type = SNAPSHOT_TYPE_STRINGMAP
    THEN [restored EXCEPT !.strings =
            Put(@, ReadString(bytes, 1).value,
                ReadString(bytes, ReadString(bytes, 1).next).value)]
    ELSE IF type = SNAPSHOT_TYPE_UINTMAP
    THEN [restored EXCEPT !.ints =
            Put(@, ReadString(bytes, 1).value,
                FromBigEndian(SubSeq(bytes, ReadString(bytes, 1).next,
                                     ReadString(bytes, 1).next + 7)))]
    ELSE restored

RECURSIVE InstallRecords(_, _, _, _)
InstallRecords(restored, type, elements, n) ==
    IF n = 0 THEN restored
    ELSE InstallRecord(InstallRecords(restored, type, elements, n - 1), type, elements[n])

\* the first n batches of a file of version V2 or V3 restored: each body is checked
\* against its data_crc and parsed, its records go to the rebuilder of its type
RECURSIVE RestoreBatches(_, _)
RestoreBatches(batches, n) ==
    IF n = 0 THEN [failed |-> FALSE, restored |-> NothingRestored]
    ELSE LET before == RestoreBatches(batches, n - 1)
             body == BatchBodyParse(batches[n].body)
         IN  IF before.failed THEN before
             ELSE IF batches[n].data_crc # getCRC32(batches[n].body) \o Zero32
                     \/ body.exception
             THEN [failed |-> TRUE, restored |-> NothingRestored]
             ELSE [failed |-> FALSE,
                   restored |-> InstallRecords(before.restored, body.type, body.elements,
                                               Len(body.elements))]

\* restore of a file: the header, the batches, and the tail checksum against the fold
Restore(file) ==
    LET read == ReadFile(file) IN
    IF ~read.ok \/ read.version \notin {SnapshotVersion.V2, SnapshotVersion.V3}
    THEN [failed |-> TRUE, restored |-> NothingRestored]
    ELSE IF read.checksum # FoldCheckSum(read.batches, Len(read.batches))
    THEN [failed |-> TRUE, restored |-> NothingRestored]
    ELSE RestoreBatches(read.batches, Len(read.batches))

\* ------------------------------------------------------------------ claims
\* the responses pushed for session s, and the store calls made for it, in order
ResponsesOf(s) == SelectSeq(responses_queue, LAMBDA r : r.session_id = s)
AppliedOf(s) == SelectSeq(store_log, LAMBDA a : a.session_id = s)
NonDecreasingXid(seq) == \A i, j \in 1..Len(seq) : i < j => seq[i].xid <= seq[j].xid
IncreasingXid(seq) == \A i, j \in 1..Len(seq) : i < j => seq[i].xid < seq[j].xid

\* C1: the responses pushed for a session appear in the xid order of its requests,
\* whatever the interleaving of processRequest, commit and onError.
C1_ResponsesInXidOrder ==
    \A s \in LocalSessions : NonDecreasingXid(ResponsesOf(s))

\* C2: the requests of a session that reach the store reach it in submission (xid)
\* order: none is applied before an earlier request of the session that is also applied.
C2_AppliedInXidOrder ==
    \A s \in LocalSessions : IncreasingXid(AppliedOf(s))

\* C3: a read is never applied while a write of its session with a smaller xid is in
\* the session's pending-writes list: every store call of the read path made by a step
\* is for a request whose xid is below every xid of that list.
C3_ReadsWaitForWrites ==
    [][\A k \in (Len(store_log) + 1)..Len(store_log') :
          store_log'[k].via = "read" =>
            /\ store_log'[k].is_read
            /\ \A i \in 1..Len(Get(pending_write_requests, store_log'[k].session_id)) :
                  Get(pending_write_requests, store_log'[k].session_id)[i].xid
                      > store_log'[k].xid]_vars

\* the read path has run and left a read waiting behind an earlier write of its session,
\* after applying a read that stood before that write
C3_ReadHeldBack ==
    /\ w_pc = "apply_committed"
    /\ \E s \in DOMAIN pending_requests :
        /\ \E i \in 1..Len(pending_requests[s]), j \in 1..Len(Get(pending_write_requests, s)) :
              /\ pending_requests[s][i].is_read
              /\ pending_write_requests[s][j].xid < pending_requests[s][i].xid
        /\ \E k \in 1..Len(store_log) :
              store_log[k].session_id = s /\ store_log[k].via = "read"

\* the store calls made for committed requests (both branches of lines 467-492)
CommittedApplied == SelectSeq(store_log, LAMBDA a : a.via # "read")
PushPosition(a) ==
    CHOOSE k \in 1..Len(commit_log) :
        commit_log[k].session_id = a.session_id /\ commit_log[k].xid = a.xid

\* C4: committed requests are applied in the order commit pushed them, within one
\* worker iteration and across iterations: each one applied was pushed by commit, once,
\* and later than every one applied before it.
C4_CommittedAppliedFIFO ==
    \A j \in 1..Len(CommittedApplied) :
        /\ \E k \in 1..Len(commit_log) :
              /\ commit_log[k].session_id = CommittedApplied[j].session_id
              /\ commit_log[k].xid = CommittedApplied[j].xid
        /\ \A i \in 1..(j - 1) :
              PushPosition(CommittedApplied[i]) < PushPosition(CommittedApplied[j])

\* two committed requests have been applied and nothing is left in committed_queue
C4_TwoCommitsApplied ==
    /\ Len(CommittedApplied) >= 2
    /\ committed_queue = <<>>

\* the pending lists of session s hold a request with this xid
InPending(s, xid) ==
    /\ \E i \in 1..Len(Get(pending_requests, s)) : pending_requests[s][i].xid = xid
    /\ \E i \in 1..Len(Get(pending_write_requests, s)) : pending_write_requests[s][i].xid = xid
XidsOf(seq) == {seq[i].xid : i \in 1..Len(seq)}

\* C7: for an error entry (session, xid) whose write is in the session's pending lists,
\* the worker step that takes the entry up pushes exactly one response, with the
\* request's xid, zxid 0 and ZOPERATIONTIMEOUT for the code TIMEOUT, ZCONNECTIONLOSS for
\* any other code; it removes the request from both pending lists and removes the
\* entry.  An entry is removed in no other way, and when every entry stands for a
\* pending write the worker's error step removes one.
C7_ErrorAnswered ==
    [][/\ \A key \in DOMAIN errors :
            key \notin DOMAIN errors' =>
              /\ InPending(key[1], key[2])
              /\ responses_queue' =
                    Append(responses_queue,
                           [session_id |-> key[1], xid |-> key[2], zxid |-> 0,
                            error |-> IF errors[key].code = "TIMEOUT"
                                      THEN "ZOPERATIONTIMEOUT" ELSE "ZCONNECTIONLOSS"])
              /\ key[2] \notin XidsOf(Get(pending_requests', key[1]))
              /\ key[2] \notin XidsOf(Get(pending_write_requests', key[1]))
       /\ ( /\ w_pc = "check" /\ w_pc' # "check" /\ ~shutdown_called
            /\ DOMAIN errors # {}
            /\ \A key \in DOMAIN errors : InPending(key[1], key[2]) )
          => \E key \in DOMAIN errors : DOMAIN errors' = DOMAIN errors \ {key}
      ]_vars

\* onError reported a write, the worker answered it, and its entry is gone
C7_ErrorHandled ==
    \E key \in error_called :
        /\ key \notin DOMAIN errors
        /\ \E i \in 1..Len(responses_queue) :
              /\ responses_queue[i].session_id = key[1]
              /\ responses_queue[i].xid = key[2]
              /\ responses_queue[i].zxid = 0
              /\ responses_queue[i].error = "ZOPERATIONTIMEOUT"
        /\ logged = "Request batch error"

Elements(seq) == {seq[i] : i \in 1..Len(seq)}

NoCallInProgress == \A s \in LocalSessions : client_pc[s] = "idle"

\* C9: shutdown terminates under every interleaving of its write of the flag and its
\* notification with the worker's predicate check and wait: while shutdown waits in
\* join and no other call is in progress, the worker is not blocked in cv.wait.
C9_ShutdownTerminates ==
    ~(sd_pc = "join" /\ w_pc = "wait" /\ NoCallInProgress)

\* C10: the untimed wait loses no work: while the worker is blocked in cv.wait, no
\* call is in progress and shutdown has not been called, nothing is queued, pending
\* or recorded as an error.
C10_WaitLosesNoWork ==
    (w_pc = "wait" /\ ~shutdown_called /\ NoCallInProgress) => need_wait

Answered(r) ==
    \E i \in 1..Len(responses_queue) :
        responses_queue[i].session_id = r.session_id /\ responses_queue[i].xid = r.xid
Applied(r) ==
    \E i \in 1..Len(store_log) :
        store_log[i].session_id = r.session_id /\ store_log[i].xid = r.xid
\* the writes of session s that processRequest pushed and the store has not applied
OutstandingWrites(s) ==
    {w \in submitted : w.session_id = s /\ ~w.is_read /\ ~Applied(w)}

\* C5: the reads of a session submitted before its earliest outstanding write are
\* answered without a commit: once the worker is blocked in cv.wait with no call in
\* progress, every pushed read that has no outstanding write of its session before it
\* has its response.
C5_ReadsAheadAnswered ==
    (w_pc = "wait" /\ NoCallInProgress) =>
        \A r \in submitted :
            (r.is_read /\ \A w \in OutstandingWrites(r.session_id) : r.xid < w.xid)
                => Answered(r)

\* C6: a write of session A whose commit never arrives does not stall session B: while
\* A has a write in its pending-writes list, a read that B pushed while B has no
\* outstanding write is answered eventually.
C6_OtherSessionNotStalled ==
    \A b \in LocalSessions, x \in 1..LiveRequests :
        []( ( /\ \E a \in LocalSessions \ {b} : Get(pending_write_requests, a) # <<>>
              /\ Request(b, x, TRUE) \in submitted
              /\ OutstandingWrites(b) = {} )
            => <>Answered(Request(b, x, TRUE)) )

\* session a has a write pending that commit was never called with, and the worker
\* has applied a read of session b
C6_ReadServedBesideStuckWrite ==
    \E a \in LocalSessions, b \in LocalSessions :
        /\ a # b
        /\ Get(pending_write_requests, a) # <<>>
        /\ commit_called = {}
        /\ \E i \in 1..Len(store_log) :
              /\ store_log[i].session_id = b
              /\ store_log[i].via = "read"

\* C11: a processRequest call made once shutdown_called is set leaves requests_queue
\* unchanged and pushes no response, and a commit or onError call made once it is set
\* leaves committed_queue and errors unchanged: while the flag is set a client that is
\* not inside a call does not get to the push, requests_queue grows only by the push
\* of a call that passed the test before, committed_queue and errors do not grow
\* (commit and onError are one step each, so a call made once the flag is set is a step
\* taken while it is set), and the step of a dropped call changes no queue and not the
\* errors.
C11_DroppedAfterShutdown ==
    [][shutdown_called =>
          /\ \A s \in LocalSessions :
                client_pc[s] = "idle" => (client_pc'[s] = "idle" /\ next_xid'[s] = next_xid[s])
          /\ Len(requests_queue') > Len(requests_queue) =>
                \E s \in LocalSessions :
                    /\ client_pc[s] = "push"
                    /\ requests_queue' = Append(requests_queue, client_req[s])
          /\ Len(committed_queue') <= Len(committed_queue)
          /\ commit_log' = commit_log
          /\ DOMAIN errors' \subseteq DOMAIN errors
          /\ \A key \in DOMAIN errors' : errors'[key] = errors[key]
          /\ dropped' # dropped =>
                UNCHANGED << requests_queue, committed_queue, errors, responses_queue >>
      ]_vars

\* shutdown was called and a processRequest, a commit and an onError call were dropped
C11_AllThreeDropped ==
    /\ shutdown_called
    /\ dropped = {"processRequest", "commit", "onError"}

\* how many requests the lists of a pending map hold
RECURSIVE TotalPending(_)
TotalPending(m) ==
    IF DOMAIN m = {} THEN 0
    ELSE LET s == CHOOSE k \in DOMAIN m : TRUE
         IN  Len(m[s]) + TotalPending(Erase(m, s))
\* how many of the store calls a step makes come from line 480
NewlyCommitted ==
    Cardinality({k \in (Len(store_log) + 1)..Len(store_log') : store_log'[k].via = "commit"})

\* C12: a committed request whose session has an empty pending-writes list is applied
\* to the store directly and gets a response, and neither pending map loses an entry
\* because of it: when the worker's apply step finds such a request first in
\* committed_queue it calls the store for it and a response with its xid is pushed, and
\* a step removes from each pending map exactly one request per store call of line 480.
C12_ForeignCommitApplied ==
    [][/\ ( /\ w_pc = "apply_committed" /\ w_pc' # "apply_committed"
            /\ committed_request_size > 0 /\ committed_queue # <<>>
            /\ Get(pending_write_requests, Head(committed_queue).session_id) = <<>> )
          => LET c == Head(committed_queue) IN
             /\ Len(store_log') > Len(store_log)
             /\ store_log'[Len(store_log) + 1] =
                    [session_id |-> c.session_id, xid |-> c.xid,
                     is_read |-> c.is_read, via |-> "foreign"]
             /\ Len(responses_queue') > Len(responses_queue)
             /\ responses_queue'[Len(responses_queue) + 1].session_id = c.session_id
             /\ responses_queue'[Len(responses_queue) + 1].xid = c.xid
             /\ responses_queue'[Len(responses_queue) + 1].error = "ZOK"
       /\ w_pc = "apply_committed" =>
             /\ TotalPending(pending_requests') = TotalPending(pending_requests) - NewlyCommitted
             /\ TotalPending(pending_write_requests')
                    = TotalPending(pending_write_requests) - NewlyCommitted
             /\ DOMAIN pending_write_requests \subseteq
                    DOMAIN pending_write_requests' \cup
                        {store_log'[k].session_id : k \in (Len(store_log) + 1)..Len(store_log')}
      ]_vars

\* a request of a session owned by another node was applied while a session of this
\* node had requests pending, and those are still pending
C12_ForeignAppliedBesidePending ==
    /\ \E k \in 1..Len(store_log) :
          store_log[k].session_id = ForeignSession /\ store_log[k].via = "foreign"
    /\ \E i \in 1..Len(responses_queue) : responses_queue[i].session_id = ForeignSession
    /\ w_pc = "top"
    /\ DOMAIN pending_write_requests \cap LocalSessions # {}
    /\ commit_called \subseteq {Request(ForeignSession, 1, FALSE)}

\* the calls of the ACL, session and map serializers that have written their file
FramedKinds == {"acl", "session", "strmap", "intmap"}
FileWritten == snap_input.kind \in FramedKinds /\ snap_pc \in {"emitted", "done"}

\* C13: every file of the ACL, session, string-map and int-map serializers, legacy and
\* V2, is exactly the SnapHead magic, one version byte equal to the version argument,
\* zero or more batches of data_length (u64) | data_crc (u64) | data_length bytes of
\* body, the SnapTail magic and a 4-byte checksum, with nothing after the checksum.
C13_FileFraming ==
    FileWritten =>
        /\ ReadFile(snap_file).ok
        /\ ReadFile(snap_file).version = snap_input.version
        /\ ReadFile(snap_file).rest = <<>>

\* an int map written by serializeMapV2 in two batches
C13_TwoBatchFile ==
    /\ snap_pc = "done"
    /\ snap_input.kind = "intmap"
    /\ snap_input.family = "V2"
    /\ ReadFile(snap_file).ok
    /\ Len(ReadFile(snap_file).batches) = 2

\* C14: the checksum in the tail of a file is the left fold of updateCheckSum over the
\* data_crc of all batches of the file in file order, starting from 0: each batch of
\* the file is folded once and nothing else is.
C14_TailChecksumIsFold ==
    FileWritten /\ ReadFile(snap_file).ok =>
        ReadFile(snap_file).checksum
            = FoldCheckSum(ReadFile(snap_file).batches, Len(ReadFile(snap_file).batches))

\* an ACL map written by serializeAcls in two batches of different data_crc
C14_TwoBatchesFolded ==
    /\ snap_pc = "done"
    /\ snap_input.kind = "acl"
    /\ snap_input.family = "legacy"
    /\ ReadFile(snap_file).ok
    /\ Len(ReadFile(snap_file).batches) = 2
    /\ ReadFile(snap_file).batches[1].data_crc # ReadFile(snap_file).batches[2].data_crc

\* serializeAclsV2 has returned from a call with an empty map and version V3
EmptyAclV3Written ==
    /\ snap_pc = "done"
    /\ snap_input.kind = "acl"
    /\ snap_input.family = "V2"
    /\ snap_input.version = SnapshotVersion.V3
    /\ snap_input.collection = <<>>

\* C15 as stated: serializing an empty ACL map with version V3 writes no batch; the
\* file is SnapHead, 0x03, SnapTail and the checksum 0x00000000.
C15_EmptyAclNoBatch ==
    EmptyAclV3Written =>
        snap_file = MAGIC_SNAPSHOT_HEAD \o <<3>> \o MAGIC_SNAPSHOT_TAIL \o Zero32

\* C15 amended: serializing an empty ACL map with version V3 writes exactly one batch,
\* whose body is a batch body of no elements (its 4-byte type and the count 0): the
\* file is SnapHead, 0x03, the header of that batch (data_length 8 and the CRC-32 of
\* the body), the body, SnapTail and the checksum updateCheckSum(0, data_crc).
C15_EmptyAclOneEmptyBatch ==
    EmptyAclV3Written =>
        /\ ReadFile(snap_file).ok
        /\ ReadFile(snap_file).version = 3
        /\ Len(ReadFile(snap_file).batches) = 1
        /\ ReadFile(snap_file).batches[1].data_length = 8
        /\ SubSeq(ReadFile(snap_file).batches[1].body, 5, 8) = << 0, 0, 0, 0 >>
        /\ ReadFile(snap_file).batches[1].data_crc
               = getCRC32(ReadFile(snap_file).batches[1].body) \o Zero32
        /\ ReadFile(snap_file).checksum
               = updateCheckSum(Zero32, getCRC32(ReadFile(snap_file).batches[1].body))
        /\ ReadFile(snap_file).rest = <<>>

\* the file of an empty ACL map, version V3: 8 + 1 + 16 + 8 + 8 + 4 bytes
C15_EmptyAclFile == EmptyAclV3Written /\ Len(snap_file) = 45

\* C16: the ephemeral-node serializers write the framing of the other serializers: for
\* a non-empty ephemerals index the file starts with the SnapHead magic and a version
\* byte and ends with the SnapTail magic and the running checksum of its batches.
C16_EphemeralsFramed ==
    (snap_pc = "done" /\ snap_input.kind = "ephemerals" /\ snap_input.collection # <<>>) =>
        /\ ReadFile(snap_file).ok
        /\ ReadFile(snap_file).rest = <<>>
        /\ ReadFile(snap_file).checksum
               = FoldCheckSum(ReadFile(snap_file).batches, Len(ReadFile(snap_file).batches))

BodyParsed == snap_pc = "parsed" /\ snap_input.kind = "body"

\* C17: for every batch body b, of any type and any sequence of elements (empty
\* elements and the empty sequence included), parse(serialize(b)) has the type of b
\* and the elements of b in the same order.
C17_BodyRoundTrip ==
    (BodyParsed /\ snap_input.malformed = "no") =>
        /\ ~snap_result.value.exception
        /\ snap_result.value.type = snap_input.body.type
        /\ snap_result.value.elements = snap_input.body.elements

\* a body of negative type with an empty element before a non-empty one went through
\* serialize and parse
C17_MixedBodyParsed ==
    /\ BodyParsed
    /\ snap_input.malformed = "no"
    /\ snap_input.body.type < 0
    /\ Len(snap_input.body.elements) = 2
    /\ snap_input.body.elements[1] = <<>>
    /\ snap_input.body.elements[2] # <<>>

\* C18: parse fails with an error and returns no batch body whenever its input is
\* truncated or declares an element length or an element count that exceeds what
\* remains of the input, negative lengths included.
C18_MalformedRejected ==
    (BodyParsed /\ snap_input.malformed # "no") => snap_result.value = ParseException

\* parse was given a body whose first element declares a negative length
C18_NegativeLengthParsed ==
    /\ BodyParsed
    /\ snap_input.malformed = "length"
    /\ readIntBinary(SubSeq(snap_file, 9, 12)) < 0

\* a collection as a map from key to value
AsMap(collection) ==
    [k \in {collection[i][1] : i \in 1..Len(collection)} |-> At(collection, k)]

SessionsReturned == snap_pc = "done" /\ snap_input.kind = "session"

\* what the session serializer of the family called writes for the store as it is
SessionsFileOf(st) ==
    IF snap_input.family = "V2"
    THEN EmitSessionsV2(openFileAndWriteHeader(snap_input.version), st,
                        snap_input.save_batch_size)
    ELSE EmitSessions(openFileAndWriteHeader(snap_input.version), st,
                      snap_input.save_batch_size)

\* C20 as stated: the session serializer returns the store's session_id_counter as it
\* was at entry to the call (and that value and the records written reflect one store
\* state).
C20_ReturnsCounterAtEntry ==
    SessionsReturned => snap_result.value = entry_counter

\* C20 amended: the session serializer returns the store's session_id_counter as it
\* was when the serializer had taken session_mutex and auth_mutex, and that value and
\* the session and auth records written reflect one and the same store state: from the
\* taking of the second mutex to the return no other thread changes the sessions, the
\* auth ids or the counter.
C20_SampledUnderBothMutexes ==
    [][ /\ (snap_pc \in {"locked", "sampled", "emitted"} => store' = store)
        /\ (snap_pc = "emitted" /\ snap_pc' = "done" =>
               /\ snap_result'.value = store.session_id_counter
               /\ snap_file = SessionsFileOf(store)) ]_vars

\* the serializer returned after another thread opened a session between the entry to
\* the call and the taking of session_mutex
C20_SessionOpenedBeforeLock ==
    /\ SessionsReturned
    /\ snap_result.value = entry_counter + 1
    /\ Len(store.session_and_timeout) >= 2

\* what the catch block logs for the throw of line 478
HeadRequestMismatch == "Logic Error, pending head request xid not same"

\* C21: whenever the worker matches a committed request against the head of
\* pending_write_requests[session], the head of pending_requests[session] is the same
\* request, so both heads are popped together, also when several commits of a session
\* are consumed in one iteration with reads queued between its writes: the test of
\* line 477, made once the head of the pending writes has matched, never fails.
C21_HeadsMatch ==
    logged # HeadRequestMismatch

\* responses_queue' holds a response for (s, x) and, after it, one for (s, y)
AnsweredInOrder(s, x, y) ==
    \E i, j \in 1..Len(responses_queue') :
        /\ i < j
        /\ responses_queue'[i].session_id = s /\ responses_queue'[i].xid = x
        /\ responses_queue'[j].session_id = s /\ responses_queue'[j].xid = y

\* C22: after a session's committed write W is applied, the reads queued directly
\* behind W in that session are answered in the same worker iteration, after W's
\* response: the step that ends the iteration by applying the commit of W (line 480),
\* with a read standing directly behind W in pending_requests, leaves responses_queue
\* with the response of W and, after it, that of the read.
C22_ReadsBehindWriteSameIteration ==
    [][\A s \in DOMAIN pending_requests :
          ( /\ w_pc = "apply_committed"
            /\ Len(pending_requests[s]) >= 2
            /\ ~pending_requests[s][1].is_read
            /\ pending_requests[s][2].is_read
            /\ \E k \in (Len(store_log) + 1)..Len(store_log') :
                  /\ store_log'[k].via = "commit"
                  /\ store_log'[k].session_id = s
                  /\ store_log'[k].xid = pending_requests[s][1].xid )
          => AnsweredInOrder(s, pending_requests[s][1].xid, pending_requests[s][2].xid)
      ]_vars

\* C23: one worker iteration drains the whole errors map: the error-drain step
\* (lines 340-409) answers and removes every entry present at its start whose request
\* is in the pending lists, not only the first one.
C23_ErrorsDrainedWhole ==
    [][(w_pc = "check" /\ w_pc' # "check" /\ ~shutdown_called) =>
          \A key \in DOMAIN errors :
              InPending(key[1], key[2]) =>
                /\ key \notin DOMAIN errors'
                /\ \E i \in (Len(responses_queue) + 1)..Len(responses_queue') :
                      /\ responses_queue'[i].session_id = key[1]
                      /\ responses_queue'[i].xid = key[2]
      ]_vars

\* the error entry key names no request of pending_requests[session]
Unmatched(key) == key[2] \notin XidsOf(Get(pending_requests, key[1]))
\* requests_queue holds a request that no error entry names
OtherRequestQueued ==
    \E i \in 1..Len(requests_queue) :
        <<requests_queue[i].session_id, requests_queue[i].xid>> \notin DOMAIN errors

\* C24: when errors holds an entry (session, xid) for which no request with that xid is
\* in pending_requests[session], the worker reports an internal-logic failure for that
\* iteration, no response is emitted for the entry, and the worker loop keeps running
\* and goes on to serve other requests in later iterations: the error step taken while
\* every entry is of that kind logs "Logic Error", pushes nothing and returns to the top
\* of the loop, and a request that waits in requests_queue when the failure is logged,
\* and that no entry names, is taken from the queue eventually.
FailureReported ==
    [][( /\ w_pc = "check" /\ w_pc' # "check" /\ ~shutdown_called
         /\ DOMAIN errors # {}
         /\ \A key \in DOMAIN errors : Unmatched(key) )
       => /\ logged' = "Logic Error"
          /\ responses_queue' = responses_queue
          /\ w_pc' = "top"]_vars
WorkerGoesOn ==
    []( (logged = "Logic Error" /\ OtherRequestQueued) => <>(requests_queue = <<>>) )
C24_LogicFailureDoesNotStall == FailureReported /\ WorkerGoesOn

\* the write requests of a pending list, in the order of the list
WritesOf(seq) == SelectSeq(seq, LAMBDA r : ~r.is_read)

\* C25: at the end of every worker step, for every session s, pending_write_requests[s]
\* is exactly the subsequence of the write requests of pending_requests[s], in the same
\* relative order (a session absent from a map counts as an empty list).
C25_WritesAreSubsequence ==
    \A s \in (DOMAIN pending_requests) \cup (DOMAIN pending_write_requests) :
        Get(pending_write_requests, s) = WritesOf(Get(pending_requests, s))

\* a committed write was applied and popped from both lists of its session, which still
\* hold a read followed by a write in one and that write in the other
C25_MixedListsAfterApply ==
    \E s \in DOMAIN pending_write_requests :
        /\ w_pc = "top"
        /\ \E k \in 1..Len(store_log) :
              store_log[k].session_id = s /\ store_log[k].via = "commit"
        /\ Len(Get(pending_requests, s)) = 2
        /\ pending_requests[s][1].is_read
        /\ pending_write_requests[s] = <<pending_requests[s][2]>>

\* seq without its first n elements
DropFirst(seq, n) == SubSeq(seq, n + 1, Len(seq))
IsSuffix(tail, seq) ==
    Len(tail) <= Len(seq) /\ tail = DropFirst(seq, Len(seq) - Len(tail))

\* C26: each worker iteration pops at most as many requests from the input queue, and
\* at most as many from committed_queue, as those queues held when their sizes were
\* sampled in that iteration, and items arriving after the sampling are left for a
\* later iteration: the drain step pops no more than request_size requests and leaves
\* those behind the first request_size queued, the apply step pops no more than
\* committed_request_size requests and leaves those behind the first
\* committed_request_size queued, and the worker pops from neither queue in any other
\* step.
C26_PopsBoundedBySample ==
    [][/\ (w_pc = "drain_input" /\ w_pc' # "drain_input") =>
            /\ Len(requests_queue) - Len(requests_queue') <= request_size
            /\ IsSuffix(DropFirst(requests_queue, request_size), requests_queue')
            /\ IsSuffix(requests_queue', requests_queue)
       /\ (w_pc = "apply_committed" /\ w_pc' # "apply_committed") =>
            /\ Len(committed_queue) - Len(committed_queue') <= committed_request_size
            /\ IsSuffix(DropFirst(committed_queue, committed_request_size), committed_queue')
       /\ (w_pc # "drain_input" /\ sd_pc # "drain") =>
            Len(requests_queue') >= Len(requests_queue)
       /\ w_pc # "apply_committed" => Len(committed_queue') >= Len(committed_queue)
      ]_vars

\* the drain has filed the requests that were queued when the size was sampled and
\* left one that was pushed later, and a commit has arrived since line 411
C26_LateArrivalsLeft ==
    /\ w_pc = "serve_reads"
    /\ requests_queue # <<>>
    /\ DOMAIN pending_requests # {}
    /\ committed_request_size > 0
    /\ Len(committed_queue) > committed_request_size

\* The call has written the records of its collection: a call of the ACL or map
\* serializers has returned, or the session serializer has written the file and still
\* holds the mutexes (the store is as it was read).
RecordsWritten ==
    /\ snap_input.kind \in FramedKinds
    /\ snap_pc = (IF snap_input.kind = "session" THEN "emitted" ELSE "done")
\* the record byte strings of the collection of the call, in iteration order
RecordsOfCall ==
    IF snap_input.kind = "acl"
    THEN [i \in 1..Len(snap_input.collection) |-> AclRecord(snap_input.collection[i])]
    ELSE IF snap_input.kind = "strmap"
    THEN [i \in 1..Len(snap_input.collection) |-> StringMapRecord(snap_input.collection[i])]
    ELSE IF snap_input.kind = "intmap"
    THEN [i \in 1..Len(snap_input.collection) |-> IntMapRecord(snap_input.collection[i])]
    ELSE [i \in 1..Len(store.session_and_timeout) |->
             SessionRecord(store.session_and_timeout[i], store.session_and_auth)]
\* the batch type of the collection kind of the call
BatchTypeOfCall ==
    IF snap_input.kind = "acl" THEN SNAPSHOT_TYPE_ACLMAP
    ELSE IF snap_input.kind = "strmap" THEN SNAPSHOT_TYPE_STRINGMAP
    ELSE IF snap_input.kind = "intmap" THEN SNAPSHOT_TYPE_UINTMAP
    ELSE SNAPSHOT_TYPE_SESSION
\* ceil(n / b)
Ceil(n, b) == (n + b - 1) \div b
\* the k-th chunk of b records (the last one may be smaller)
Chunk(records, k, b) ==
    SubSeq(records, (k - 1) * b + 1, IF k * b < Len(records) THEN k * b ELSE Len(records))
\* the body of a batch of this type holding these records, as the family encodes it
EncodedBatch(family, type, records) ==
    IF family = "V2" THEN BatchBodySerialize([type |-> type, elements |-> records])
    ELSE SerializeToString([batch_type |-> type, data |-> records])

\* C27: for a collection of N >= 1 records and batch size B >= 1, the ACL, session and
\* map serializers write exactly ceil(N/B) batches; the k-th batch holds the k-th chunk
\* of B consecutive records of the collection's iteration order (the last chunk may be
\* smaller) under the collection's batch type, so every record is in exactly one batch.
C27_BatchesAreChunks ==
    (RecordsWritten /\ Len(RecordsOfCall) >= 1) =>
        /\ ReadFile(snap_file).ok
        /\ Len(ReadFile(snap_file).batches)
              = Ceil(Len(RecordsOfCall), snap_input.save_batch_size)
        /\ \A k \in 1..Len(ReadFile(snap_file).batches) :
              ReadFile(snap_file).batches[k].body
                  = EncodedBatch(snap_input.family, BatchTypeOfCall,
                                 Chunk(RecordsOfCall, k, snap_input.save_batch_size))

\* serializeSessionsV2 has written three sessions with batch size 2: a batch of two
\* records and a batch of one
C27_ThreeSessionsTwoBatches ==
    /\ snap_pc = "emitted"
    /\ snap_input.family = "V2"
    /\ snap_input.save_batch_size = 2
    /\ Len(store.session_and_timeout) = 3
    /\ Len(ReadFile(snap_file).batches) = 2
    /\ Len(BatchBodyParse(ReadFile(snap_file).batches[1].body).elements) = 2
    /\ Len(BatchBodyParse(ReadFile(snap_file).batches[2].body).elements) = 1

\* a serializer call of any collection kind has written what it writes (the session
\* serializer still holds the mutexes: the store is as it was read)
CallWritten ==
    /\ snap_input.kind \in FramedKinds \cup {"ephemerals"}
    /\ snap_pc = (IF snap_input.kind = "session" THEN "emitted" ELSE "done")
\* what the legacy serializer of the kind writes for the input of the call
LegacyFileOfInput ==
    IF snap_input.kind = "acl"
    THEN serializeAcls(snap_input.collection, snap_input.save_batch_size, snap_input.version)
    ELSE IF snap_input.kind = "strmap"
    THEN serializeStringMap(snap_input.collection, snap_input.save_batch_size,
                            snap_input.version)
    ELSE IF snap_input.kind = "intmap"
    THEN serializeIntMap(snap_input.collection, snap_input.save_batch_size,
                         snap_input.version)
    ELSE IF snap_input.kind = "ephemerals"
    THEN serializeEphemerals(snap_input.collection, snap_input.save_batch_size).out
    ELSE EmitSessions(openFileAndWriteHeader(snap_input.version), store,
                      snap_input.save_batch_size)
\* what the V2 serializer of the kind writes for the input of the call
V2FileOfInput ==
    IF snap_input.kind = "acl"
    THEN serializeAclsV2(snap_input.collection, snap_input.save_batch_size,
                         snap_input.version)
    ELSE IF snap_input.kind = "strmap"
    THEN serializeStringMapV2(snap_input.collection, snap_input.save_batch_size,
                              snap_input.version)
    ELSE IF snap_input.kind = "intmap"
    THEN serializeIntMapV2(snap_input.collection, snap_input.save_batch_size,
                           snap_input.version)
    ELSE IF snap_input.kind = "ephemerals"
    THEN serializeEphemeralsV2(snap_input.collection, snap_input.save_batch_size).out
    ELSE EmitSessionsV2(openFileAndWriteHeader(snap_input.version), store,
                        snap_input.save_batch_size)
\* the file the call wrote and the file of the other family for the same input
LegacyFile == IF snap_input.family = "legacy" THEN snap_file ELSE LegacyFileOfInput
V2File == IF snap_input.family = "V2" THEN snap_file ELSE V2FileOfInput
\* the batches of a file of the call's kind, and the bytes behind the last batch: the
\* files of the ephemerals serializers are batches from the first byte to the last
FileOfKind(file) ==
    IF snap_input.kind = "ephemerals"
    THEN ReadFile(MAGIC_SNAPSHOT_HEAD \o <<0>> \o file \o MAGIC_SNAPSHOT_TAIL \o Zero32)
    ELSE ReadFile(file)

\* C28: for the same collection, the same iteration order and the same batch size, the
\* legacy serializer and the V2 serializer of a collection kind write the same number
\* of batches, holding the same record byte strings in the same order, and fold their
\* checksums at the same points: batch k of the legacy file is the protobuf encoding of
\* the type and the elements that parse finds in batch k of the V2 file, and each
\* file's checksum, where the kind has one, is the fold over all of its batches.
C28_FamiliesBatchAlike ==
    CallWritten =>
        LET legacy == FileOfKind(LegacyFile)
            v2 == FileOfKind(V2File)
        IN  /\ legacy.ok
            /\ v2.ok
            /\ Len(legacy.batches) = Len(v2.batches)
            /\ \A k \in 1..Len(v2.batches) :
                  LET parsed == BatchBodyParse(v2.batches[k].body) IN
                  /\ ~parsed.exception
                  /\ legacy.batches[k].body =
                        SerializeToString([batch_type |-> parsed.type,
                                           data |-> parsed.elements])
            /\ snap_input.kind # "ephemerals" =>
                  /\ legacy.checksum = FoldCheckSum(legacy.batches, Len(legacy.batches))
                  /\ v2.checksum = FoldCheckSum(v2.batches, Len(v2.batches))

\* serializeEphemerals has written an index of two sessions in two batches
C28_LegacyEphemeralsTwoBatches ==
    /\ snap_pc = "done"
    /\ snap_input.kind = "ephemerals"
    /\ snap_input.family = "legacy"
    /\ snap_input.save_batch_size = 1
    /\ Len(snap_input.collection) = 2
    /\ Len(FileOfKind(snap_file).batches) = 2
    /\ V2FileOfInput # snap_file

\* how many of the commits pushed the worker has popped (committed_queue is FIFO and
\* the worker its only consumer)
PoppedCommits == Len(commit_log) - Len(committed_queue)
\* the store calls of lines 469 and 480 made for the committed request c
AppliedCommits(c) ==
    {i \in 1..Len(store_log) :
        /\ store_log[i].via # "read"
        /\ store_log[i].session_id = c.session_id
        /\ store_log[i].xid = c.xid}

\* C29: every request that commit pushed onto committed_queue is applied to the store
\* exactly once after the worker pops it: no popped committed request is discarded
\* without being applied, also when the worker finds that it does not match the head
\* of the pending lists of its session.
C29_PoppedCommitApplied ==
    \A k \in 1..PoppedCommits : Cardinality(AppliedCommits(commit_log[k])) = 1

\* the responses pushed for the request r
ResponsesTo(r) ==
    {i \in 1..Len(responses_queue) :
        responses_queue[i].session_id = r.session_id /\ responses_queue[i].xid = r.xid}

\* C30: each request accepted by processRequest receives at most one response: a write
\* never gets both an error response from the errors map and a normal response from a
\* commit of the same (session, xid), whatever order onError and commit are delivered
\* in.
C30_AtMostOneResponse ==
    \A r \in submitted : Cardinality(ResponsesTo(r)) <= 1

\* the keys onError may be called with under ErrorSpec
ErrorKeys == LocalSessions \X (1..ErrRequests)

\* C31: every entry that onError put into the errors map is eventually removed from
\* it, also when onError is delivered while the failed write is still in the input
\* queue and has not been moved to the pending lists, and an error entry never keeps
\* the worker from draining the input queue and committed_queue for ever: whatever is
\* queued while errors holds an entry is taken from its queue eventually.
C31_ErrorEntryRemoved ==
    /\ \A key \in ErrorKeys : [](key \in DOMAIN errors => <>(key \notin DOMAIN errors))
    /\ []( (DOMAIN errors # {} /\ requests_queue # <<>>) => <>(requests_queue = <<>>) )
    /\ []( (DOMAIN errors # {} /\ committed_queue # <<>>) => <>(committed_queue = <<>>) )

\* the committed requests that the step pops
PoppedByStep ==
    {committed_queue[k] : k \in 1..(Len(committed_queue) - Len(committed_queue'))}

\* C32: if processRequest returned for a write W before commit was called for W and no
\* onError was delivered for W, then when the worker pops the commit of W, W is in
\* pending_write_requests of its session, so the commit is not handled by the branch
\* for sessions of other nodes (lines 467-470): every commit of a local session that
\* the apply step pops, and for which onError was not called, names a write of the
\* session's pending-writes list, and the step makes no store call of line 469 for it.
C32_LocalCommitFindsPendingWrite ==
    [][(w_pc = "apply_committed" /\ w_pc' # "apply_committed") =>
          \A c \in PoppedByStep :
              (c.session_id \in LocalSessions
                  /\ <<c.session_id, c.xid>> \notin error_called)
              => /\ c.xid \in XidsOf(Get(pending_write_requests, c.session_id))
                 /\ \A k \in (Len(store_log) + 1)..Len(store_log') :
                       ~( /\ store_log'[k].via = "foreign"
                          /\ store_log'[k].session_id = c.session_id
                          /\ store_log'[k].xid = c.xid )
      ]_vars

\* the worker is about to pop the commit of a pending write while a later write of the
\* session, pushed after the size of the input queue was sampled, waits in
\* requests_queue with its commit already behind the sampled part of committed_queue
C32_LateWriteAndCommitQueued ==
    /\ w_pc = "apply_committed"
    /\ committed_request_size = 1
    /\ Len(committed_queue) = 2
    /\ error_called = {}
    /\ committed_queue[1].xid \in XidsOf(Get(pending_write_requests, committed_queue[1].session_id))
    /\ \E i \in 1..Len(requests_queue) : requests_queue[i] = committed_queue[2]

\* the requests that processRequest pushed and that have no response
Unanswered == {r \in submitted : ~Answered(r)}

\* C33: every request that processRequest pushed onto the input queue eventually
\* receives a response, whatever the interleaving with shutdown, including requests
\* the worker had moved into the pending lists and requests pushed by a producer that
\* passed the test of shutdown_called before the flag was set.  In finite-run form:
\* once shutdown has returned and no call of processRequest is in progress (the worker
\* is joined, so nothing can push a response any more), no pushed request is
\* unanswered.
C33_AnsweredAfterShutdown ==
    (sd_pc = "done" /\ NoCallInProgress) => Unanswered = {}

\* C34: the errors map is read or written only by a thread that holds errors_mutex,
\* so no access of the worker to errors, the emptiness test of the wait predicate
\* included, overlaps an emplace of onError: every thread inside a member function of
\* errors holds errors_mutex, and the worker and onError are never inside errors
\* together.
C34_ErrorsUnderMutex ==
    /\ \A t \in errors_users : errors_mutex = t
    /\ ~({"run3", "onError"} \subseteq errors_users)

====
